---------------------------- MODULE Spec2Model ----------------------------
(***************************************************************************)
(* A model of flagtrack: the writeup parser, the solver decomposition,     *)
(* the leaderboard aggregation, the location resolver and the task         *)
(* scaffolder with its git workflow.                                       *)
(*                                                                         *)
(* Strings are sequences of tokens.  A token stands for a fixed piece of   *)
(* text: a token never contains a backtick, a newline, a comma or an       *)
(* ampersand unless it is that character, so concatenating tokens cannot   *)
(* make up another token.                                                  *)
(***************************************************************************)
EXTENDS Integers, Sequences, FiniteSets, TLC

VARIABLES
  text,        \* the content of one writeup.md
  out,         \* what the last command that read text derived from it
  solverStr,   \* the argument of processSolvers
  names,       \* the value processSolvers returned
  challenges,  \* the array scanAllChallenges hands to processLeaderboardData
  board,       \* the value processLeaderboardData returned
  cwd,         \* process.cwd()
  dirs,        \* the directories that exist
  parentDir,   \* config.parentDir
  located,     \* what validateLocation returned or threw
  now,         \* Math.floor(Date.now() / 1000)
  config,      \* what loadConfig yields
  folders,     \* the directories below the event root
  files,       \* the files below the event root and what they hold
  git,         \* the repository: branches, current branch, commits, pushes
  last,        \* the latest run of create: its answers and its outcome
  runs,        \* how many times create has run
  cfgFile,     \* .flagtrack/config.yml below the repository root
  store,       \* the entry 'currentConfig' of the key-value store
  setups,      \* how many times setup has run
  writeup,     \* writeup.md of the task solve works on
  vcs,         \* the repository as solve sees it
  outcome,     \* the latest run of solve or leaderboard: exit status, messages, git calls
  solves,      \* how many times solve has run
  tree,        \* the writeup.md files updateReadme finds, with the history git reports
  scanned,     \* what findCompetitionData collected from them
  readme,      \* README.md at the repository root, as update last wrote it
  challengeFlag, \* the flag of one challenge
  cell         \* the flag cell generateReadme renders for it

parseVars   == <<text, out>>
solverVars  == <<solverStr, names>>
boardVars   == <<challenges, board>>
locVars     == <<cwd, dirs, parentDir, located>>
createVars  == <<now, config, folders, files, git, last, runs>>
cfgVars     == <<cfgFile, store, setups>>
solveVars   == <<writeup, vcs, outcome, solves>>
metaVars    == <<tree, scanned>>
readmeVars  == <<readme, challengeFlag, cell>>
commandVars == <<cfgVars, solveVars, metaVars, readmeVars>>
vars == <<text, out, solverStr, names, challenges, board,
          cwd, dirs, parentDir, located,
          now, config, folders, files, git, last, runs, cfgFile, store, setups,
          writeup, vcs, outcome, solves, tree, scanned, readme, challengeFlag, cell>>

None == "none"

SaidNoConfig == "No configuration found. Run flagtrack setup first."

\* what the user typed at the prompts of a run; a prompt never shown leaves its default
NoAnswers == [solvedFlag |-> "unasked", flagValue |-> <<>>, solverName |-> <<>>, pointsValue |-> <<>>]

\* what a run of a command printed, its exit status and its git calls
Ran(command, exit, said, calls) ==
  [command |-> command, exit |-> exit, said |-> said, calls |-> calls, answers |-> NoAnswers]

\* a property that the configuration does not have
Undefined == <<"undefined">>

\* loadConfig found nothing
NoConfig == [present |-> FALSE, eventName |-> Undefined, ctfName |-> Undefined,
             parentDir |-> <<>>, structure |-> <<>>]

\* the parts of the state a specification does not exercise stay as they are here
IdleParse   == text = <<>> /\ out = [by |-> None, solved |-> FALSE]
IdleSolvers == solverStr = <<>> /\ names = [done |-> FALSE, list |-> <<>>]
IdleLoc     ==
  /\ cwd = <<>> /\ dirs = {} /\ parentDir = ""
  /\ located = [kind |-> "none", path |-> <<>>]
IdleCreate  ==
  /\ now = 0
  /\ config = NoConfig
  /\ folders = {} /\ files = <<>> /\ runs = 0
  /\ git = [isRepo |-> FALSE, branches |-> {},
            current |-> <<>>, commits |-> {}, pushed |-> {}]
  /\ last = [done |-> FALSE, root |-> <<>>, category |-> <<>>, taskNum |-> 0,
             taskName |-> <<>>, from |-> <<>>, folder |-> <<>>,
             branchCreated |-> FALSE, failed |-> "none", exit |-> 0, said |-> {}]
IdleBoard   ==
  /\ challenges = <<>>
  /\ board = [done |-> FALSE, solvers |-> <<>>,
              totals |-> [challenges |-> 0, solved |-> 0, points |-> 0]]
IdleConfig  ==
  /\ cfgFile = [state |-> "missing", content |-> NoConfig]
  /\ store = NoConfig
  /\ setups = 0
IdleSolve   ==
  /\ writeup = [exists |-> FALSE, content |-> <<>>]
  /\ vcs = [current |-> <<>>, branches |-> {}, dirty |-> {}, commits |-> <<>>,
            remote |-> {}, merged |-> {}]
  /\ outcome = Ran(None, 0, {}, <<>>)
  /\ solves = 0
IdleMeta    == tree = <<>> /\ scanned = [runs |-> 0, challenges |-> <<>>]
NoReadme    == [runs |-> 0, written |-> FALSE, exit |-> 0, stamp |-> 0, sections |-> <<>>]
IdleReadme  == readme = NoReadme /\ challengeFlag = <<>> /\ cell = <<>>
IdleCommands == IdleConfig /\ IdleSolve /\ IdleMeta /\ IdleReadme

(***************************************************************************)
(* JavaScript values, as far as flag && flag !== 'TBD' needs them.         *)
(***************************************************************************)
JsNull    == [t |-> "null", s |-> <<>>, b |-> FALSE]
JsStr(s)  == [t |-> "string", s |-> s, b |-> FALSE]
JsBool(b) == [t |-> "boolean", s |-> <<>>, b |-> b]

Truthy(v) ==
  CASE v.t = "null"    -> FALSE
    [] v.t = "string"  -> v.s # <<>>
    [] v.t = "boolean" -> v.b

\* a && b
JsAnd(a, b) == IF Truthy(a) THEN b ELSE a

(***************************************************************************)
(* Writeup text.  LBL is the label "**Flag:** " (with its blank), BT a     *)
(* backtick, NL a line end, TBD the placeholder and X any other text.      *)
(***************************************************************************)
LBL == "**Flag:** "
BT  == "<backtick>"
NL  == "\n"
TBD == "TBD"
X   == "flag{x}"

TextTokens == {LBL, BT, NL, TBD, X}

MaxTextLen == 6

SeqsUpTo(S, n) == UNION {[1..k -> S] : k \in 0..n}

Texts == SeqsUpTo(TextTokens, MaxTextLen)

(***************************************************************************)
(* content.match(/\*\*Flag:\*\* BT(.+)BT/): the leftmost place where the   *)
(* label and a backtick stand, followed on the same line by at least one   *)
(* character and a backtick; (.+) is greedy, so the closing backtick is    *)
(* the last one of the line.                                               *)
(***************************************************************************)
RECURSIVE DotRunEnd(_, _)
\* the last index that .+, started at index k, can consume (k-1 if none)
DotRunEnd(t, k) ==
  IF k > Len(t) \/ t[k] = NL THEN k - 1 ELSE DotRunEnd(t, k + 1)

RECURSIVE BacktrackTo(_, _, _)
\* the greatest j in lo..hi with t[j] a backtick, 0 when there is none
BacktrackTo(t, lo, hi) ==
  IF hi < lo THEN 0
  ELSE IF t[hi] = BT THEN hi
  ELSE BacktrackTo(t, lo, hi - 1)

NoMatch == [ok |-> FALSE, cap |-> <<>>]

FlagMatchAt(t, i) ==
  IF i + 1 <= Len(t) /\ t[i] = LBL /\ t[i + 1] = BT
  THEN LET e == DotRunEnd(t, i + 2)
           j == BacktrackTo(t, i + 3, e)
       IN  IF j = 0 THEN NoMatch
           ELSE [ok |-> TRUE, cap |-> SubSeq(t, i + 2, j - 1)]
  ELSE NoMatch

RECURSIVE FlagSearch(_, _)
FlagSearch(t, i) ==
  IF i > Len(t) THEN NoMatch
  ELSE LET m == FlagMatchAt(t, i)
       IN  IF m.ok THEN m ELSE FlagSearch(t, i + 1)

FlagMatch(t) == FlagSearch(t, 1)

\* scanAllChallenges: flag = flagMatch ? flagMatch[1] : null
ScanFlag(t) ==
  LET m == FlagMatch(t) IN IF m.ok THEN JsStr(m.cap) ELSE JsNull

MutScanIsCompleted(t) == JsBool(Truthy(ScanFlag(t)))

\* scanAllChallenges: isCompleted = flag && flag !== 'TBD'
ScanIsCompleted(t) ==
  LET flag == ScanFlag(t) IN JsAnd(flag, JsBool(flag.s # <<TBD>>))

\* extractMetadata: flag = flagMatch ? flagMatch[1] : ''
MetaFlag(t) ==
  LET m == FlagMatch(t) IN IF m.ok THEN JsStr(m.cap) ELSE JsStr(<<>>)

\* extractMetadata: isCompleted = flag && flag !== 'TBD'
MetaIsCompleted(t) ==
  LET flag == MetaFlag(t) IN JsAnd(flag, JsBool(flag.s # <<TBD>>))

\* solve: isFlagMissing = !flag || flag === 'TBD'
SolveIsFlagMissing(t) ==
  LET flag == ScanFlag(t) IN (~Truthy(flag)) \/ flag.s = <<TBD>>

NoOut == [by |-> None, solved |-> FALSE]

\* leaderboard reads the writeup
ScanWriteup ==
  /\ out' = [by |-> "leaderboard", solved |-> Truthy(ScanIsCompleted(text))]
  /\ UNCHANGED text

\* update reads the writeup
ExtractMetadata ==
  /\ out' = [by |-> "update", solved |-> Truthy(MetaIsCompleted(text))]
  /\ UNCHANGED text

\* solve reads the writeup
SolveCheck ==
  /\ out' = [by |-> "solve", solved |-> ~SolveIsFlagMissing(text)]
  /\ UNCHANGED text

InitParse ==
  /\ text \in Texts
  /\ out = NoOut
  /\ IdleSolvers /\ IdleBoard /\ IdleLoc /\ IdleCreate /\ IdleCommands

NextParse ==
  \/ ScanWriteup /\ UNCHANGED <<solverVars, boardVars, locVars, createVars, commandVars>>
  \/ ExtractMetadata /\ UNCHANGED <<solverVars, boardVars, locVars, createVars, commandVars>>
  \/ SolveCheck /\ UNCHANGED <<solverVars, boardVars, locVars, createVars, commandVars>>

SpecParse == InitParse /\ [][NextParse]_vars

(***************************************************************************)
(* C1.  Whatever the writeup text, the leaderboard scan, the README        *)
(* extraction and solve's flag check reach one verdict: the task is solved *)
(* exactly when the text has a Flag field (the first place where the label *)
(* is followed by a backtick, some text and a closing backtick on the same *)
(* line) whose value, between the opening backtick and the last backtick   *)
(* of the line, is not 'TBD'.                                              *)
(***************************************************************************)
IsFlagField(t, i) ==
  /\ i + 3 <= Len(t)
  /\ t[i] = LBL /\ t[i + 1] = BT
  /\ \E j \in (i + 3)..Len(t) :
       t[j] = BT /\ \A k \in (i + 2)..j : t[k] # NL

FieldValue(t, i) ==
  LET j == CHOOSE j \in (i + 3)..Len(t) :
             /\ t[j] = BT /\ \A k \in (i + 2)..j : t[k] # NL
             /\ \A l \in (j + 1)..Len(t) :
                  t[l] = BT => \E k \in j..l : t[k] = NL
  IN  SubSeq(t, i + 2, j - 1)

SolvedRule(t) ==
  \E i \in 1..Len(t) :
    /\ IsFlagField(t, i)
    /\ \A h \in 1..(i - 1) : ~IsFlagField(t, h)
    /\ FieldValue(t, i) # <<>>
    /\ FieldValue(t, i) # <<TBD>>

ALICE   == "Alice"
BOB     == "Bob"
CHARLIE == "Charlie"
COMMA   == ","
AMP     == "&"
SP      == " "
SP2     == "  "
AND     == "and"
TE1     == "Team effort"
TE2     == "TEAM EFFORT"
UNKNOWN == "Unknown"

SolverTokens == {ALICE, BOB, COMMA, AMP, SP, AND, TE1, TE2, TBD, UNKNOWN}

MaxSolverLen == 4

SolverStrings == SeqsUpTo(SolverTokens, MaxSolverLen)

\* String.prototype.toLowerCase, token by token
LowerToken(c) ==
  CASE c \in {TE1, TE2} -> "team effort"
    [] c = ALICE   -> "alice"
    [] c = BOB     -> "bob"
    [] c = CHARLIE -> "charlie"
    [] c = TBD     -> "tbd"
    [] c = UNKNOWN -> "unknown"
    [] OTHER       -> c

toLowerCase(s) == [i \in DOMAIN s |-> LowerToken(s[i])]

\* String.prototype.includes for a phrase that is one token
includes(s, phrase) == \E i \in DOMAIN s : s[i] = phrase

RECURSIVE SkipBlanks(_, _)
\* the first index from i on that holds no blank
SkipBlanks(t, i) ==
  IF i <= Len(t) /\ t[i] = SP THEN SkipBlanks(t, i + 1) ELSE i

\* the index after a match of /,|\s+and\s+|&/ that starts at i, 0 when none does
SeparatorEnd(t, i) ==
  IF t[i] \in {COMMA, AMP} THEN i + 1
  ELSE IF t[i] = SP
       THEN LET k == SkipBlanks(t, i)
            IN  IF k + 1 <= Len(t) /\ t[k] = AND /\ t[k + 1] = SP
                THEN SkipBlanks(t, k + 1)
                ELSE 0
       ELSE 0

RECURSIVE SplitFrom(_, _, _, _)
\* solverStr.split(/,|\s+and\s+|&/)
SplitFrom(t, i, piece, acc) ==
  IF i > Len(t) THEN Append(acc, piece)
  ELSE LET e == SeparatorEnd(t, i)
       IN  IF e # 0 THEN SplitFrom(t, e, <<>>, Append(acc, piece))
           ELSE SplitFrom(t, i + 1, Append(piece, t[i]), acc)

split(t) == SplitFrom(t, 1, <<>>, <<>>)

RECURSIVE TrimLeft(_)
TrimLeft(p) == IF p # <<>> /\ Head(p) \in {SP, SP2} THEN TrimLeft(Tail(p)) ELSE p

RECURSIVE TrimRight(_)
TrimRight(p) ==
  IF p # <<>> /\ p[Len(p)] \in {SP, SP2}
  THEN TrimRight(SubSeq(p, 1, Len(p) - 1)) ELSE p

\* String.prototype.trim
trim(p) == TrimRight(TrimLeft(p))

RECURSIVE FilterNonEmpty(_)
\* .filter(name => name.length > 0)
FilterNonEmpty(ps) ==
  IF ps = <<>> THEN <<>>
  ELSE IF Head(ps) = <<>> THEN FilterNonEmpty(Tail(ps))
  ELSE <<Head(ps)>> \o FilterNonEmpty(Tail(ps))

\* .split(...).map(name => name.trim()).filter(name => name.length > 0)
SplitNames(s) == FilterNonEmpty([i \in DOMAIN split(s) |-> trim(split(s)[i])])

MutProcessSolvers(s) ==
  IF s = <<>> \/ s = <<TBD>> \/ s = <<UNKNOWN>> THEN <<>>
  ELSE IF toLowerCase(s) = <<"team effort">> THEN << <<TE1>> >>
  ELSE SplitNames(s)

processSolvers(s) ==
  IF s = <<>> \/ s = <<TBD>> \/ s = <<UNKNOWN>> THEN <<>>
  ELSE IF includes(toLowerCase(s), "team effort") THEN << <<TE1>> >>
  ELSE SplitNames(s)

ProcessSolvers ==
  /\ names' = [done |-> TRUE, list |-> processSolvers(solverStr)]
  /\ UNCHANGED solverStr

InitSolvers ==
  /\ solverStr \in SolverStrings
  /\ names = [done |-> FALSE, list |-> <<>>]
  /\ IdleParse /\ IdleBoard /\ IdleLoc /\ IdleCreate /\ IdleCommands

NextSolvers == ProcessSolvers /\ UNCHANGED <<parseVars, boardVars, locVars, createVars, commandVars>>

SpecSolvers == InitSolvers /\ [][NextSolvers]_vars

(***************************************************************************)
(* The decomposition stated without the split: a comma, an ampersand and   *)
(* an "and" with blanks on both sides cut the string (blanks taken by one  *)
(* "and" are not left for the next one); the names are the pieces between  *)
(* the cuts, without their outer blanks, the empty ones left out.          *)
(***************************************************************************)
RECURSIVE LastNonBlankBefore(_, _)
LastNonBlankBefore(t, k) ==
  IF k <= 1 THEN 0
  ELSE IF t[k - 1] # SP THEN k - 1
  ELSE LastNonBlankBefore(t, k - 1)

RECURSIVE IsCuttingAnd(_, _)
IsCuttingAnd(t, k) ==
  /\ 1 < k /\ k < Len(t)
  /\ t[k] = AND /\ t[k - 1] = SP /\ t[k + 1] = SP
  /\ LET p == LastNonBlankBefore(t, k)
     IN  ~(p >= 1 /\ IsCuttingAnd(t, p))

IsCut(t, i) == t[i] \in {COMMA, AMP} \/ IsCuttingAnd(t, i)

RECURSIVE PieceEnd(_, _)
\* the last index of the piece that starts at a
PieceEnd(t, a) ==
  IF a + 1 > Len(t) \/ IsCut(t, a + 1) THEN a ELSE PieceEnd(t, a + 1)

RECURSIVE NamesFrom(_, _)
NamesFrom(t, i) ==
  IF i > Len(t) THEN <<>>
  ELSE IF IsCut(t, i) THEN NamesFrom(t, i + 1)
  ELSE LET b == PieceEnd(t, i)
           n == trim(SubSeq(t, i, b))
       IN  (IF n = <<>> THEN <<>> ELSE <<n>>) \o NamesFrom(t, b + 1)

ExpectedNames(t) == NamesFrom(t, 1)

IsTeamEffort(s)       == Len(s) = 1 /\ s[1] \in {TE1, TE2}
ContainsTeamEffort(s) == \E i \in DOMAIN s : s[i] \in {TE1, TE2}
IsPlaceholder(s)      == s \in {<<>>, <<TBD>>, <<UNKNOWN>>}

AliceBobAndCharlie == <<ALICE, COMMA, SP, BOB, COMMA, SP, AND, SP, CHARLIE>>

(***************************************************************************)
(* C4, as claimed.  processSolvers maps a solver string that is the phrase *)
(* 'team effort' (any letter case) to ['Team effort'] and every other      *)
(* string that is no placeholder to its names, split at commas, ampersands *)
(* and the word 'and', trimmed, the empty ones dropped.                    *)
(***************************************************************************)
C4_Original ==
  names.done =>
    /\ IsTeamEffort(solverStr) => names.list = << <<TE1>> >>
    /\ (~IsTeamEffort(solverStr) /\ ~IsPlaceholder(solverStr))
         => names.list = ExpectedNames(solverStr)

(***************************************************************************)
(* C4, amended.  processSolvers maps the empty string, 'TBD' and 'Unknown' *)
(* to no name, every other string that contains the phrase 'team effort'   *)
(* (any letter case, alone or with other text) to ['Team effort'], and     *)
(* every remaining string to its names, split at commas, ampersands and    *)
(* 'and' between blanks, trimmed, the empty ones dropped; 'Alice, Bob, and *)
(* Charlie' gives exactly Alice, Bob, Charlie.                             *)
(***************************************************************************)
C4_Decomposition ==
  /\ processSolvers(AliceBobAndCharlie) = << <<ALICE>>, <<BOB>>, <<CHARLIE>> >>
  /\ names.done =>
       /\ IsPlaceholder(solverStr) => names.list = <<>>
       /\ (~IsPlaceholder(solverStr) /\ ContainsTeamEffort(solverStr))
            => names.list = << <<TE1>> >>
       /\ (~IsPlaceholder(solverStr) /\ ~ContainsTeamEffort(solverStr))
            => names.list = ExpectedNames(solverStr)

\* a name beside the phrase: the whole string collapses to the team entry
C4_Witness ==
  /\ solverStr = <<ALICE, SP, AND, TE2>>
  /\ names = [done |-> TRUE, list |-> << <<TE1>> >>]

\* two names around a cutting 'and' are decomposed
C4_WitnessSplit ==
  /\ solverStr = <<ALICE, SP, AND, SP>>
  /\ names.done

(***************************************************************************)
(* The leaderboard.  A challenge is what scanAllChallenges pushes, as far  *)
(* as processLeaderboardData's counts read it: points, isCompleted and the *)
(* solver string (name, category and competition only label the records).  *)
(***************************************************************************)
MaxChallenges == 3

PointValues == {0, 100, 200}

SolverChoices ==
  { <<TBD>>, <<ALICE>>, <<ALICE, COMMA, SP, BOB>>, <<ALICE, AMP, ALICE>> }

Challenge(p, c, s) == [points |-> p, isCompleted |-> c, solver |-> s]

Challenges ==
  { Challenge(p, JsBool(c), s) :
      p \in PointValues, c \in BOOLEAN, s \in SolverChoices }

\* (a / b * 100).toFixed(1), a and b non-negative integers
Number(tenths) == [kind |-> "number", tenths |-> tenths]
NaN            == [kind |-> "NaN", tenths |-> 0]
Infinity       == [kind |-> "Infinity", tenths |-> 0]

Percent(a, b) ==
  IF b = 0 THEN (IF a = 0 THEN NaN ELSE Infinity)
  ELSE Number((2000 * a + b) \div (2 * b))

NewSolver(name) ==
  [name |-> name, points |-> 0, solved |-> 0, challenges |-> <<>>]

HasSolver(solvers, name) == \E i \in DOMAIN solvers : solvers[i].name = name

MutCredit(solvers, name, ch) ==
  LET with == IF HasSolver(solvers, name) THEN solvers
              ELSE Append(solvers, NewSolver(name))
  IN  [i \in DOMAIN with |->
         IF with[i].name = name
         THEN [with[i] EXCEPT
                 !.points = @ + ch.points \div Len(processSolvers(ch.solver)),
                 !.solved = @ + 1,
                 !.challenges = Append(@, ch.points)]
         ELSE with[i]]

\* if (!solvers[solverName]) {...}; solver.points += ...; solver.solved += 1; ...
Credit(solvers, name, ch) ==
  LET with == IF HasSolver(solvers, name) THEN solvers
              ELSE Append(solvers, NewSolver(name))
  IN  [i \in DOMAIN with |->
         IF with[i].name = name
         THEN [with[i] EXCEPT !.points = @ + ch.points,
                              !.solved = @ + 1,
                              !.challenges = Append(@, ch.points)]
         ELSE with[i]]

RECURSIVE CreditAll(_, _, _)
\* for (const solverName of solversList)
CreditAll(solvers, list, ch) ==
  IF list = <<>> THEN solvers
  ELSE CreditAll(Credit(solvers, Head(list), ch), Tail(list), ch)

MutProcessChallenge(acc, ch) ==
  [acc EXCEPT
     !.solved  = @ + (IF Truthy(ch.isCompleted) THEN 1 ELSE 0),
     !.points  = @ + ch.points,
     !.solvers = IF Truthy(ch.isCompleted)
                 THEN CreditAll(@, processSolvers(ch.solver), ch) ELSE @]

\* the body of the loop over the challenges
ProcessChallenge(acc, ch) ==
  IF Truthy(ch.isCompleted)
  THEN [acc EXCEPT !.solved  = @ + 1,
                   !.points  = @ + ch.points,
                   !.solvers = CreditAll(@, processSolvers(ch.solver), ch)]
  ELSE acc

RECURSIVE ProcessFrom(_, _, _)
ProcessFrom(acc, chs, i) ==
  IF i > Len(chs) THEN acc
  ELSE ProcessFrom(ProcessChallenge(acc, chs[i]), chs, i + 1)

\* (a, b) => b.points !== a.points ? b.points - a.points : b.solved - a.solved
SortsBefore(a, b) ==
  IF b.points # a.points THEN a.points > b.points ELSE a.solved > b.solved

RECURSIVE InsertSorted(_, _)
InsertSorted(sorted, e) ==
  IF sorted = <<>> THEN <<e>>
  ELSE IF SortsBefore(e, Head(sorted)) THEN <<e>> \o sorted
  ELSE <<Head(sorted)>> \o InsertSorted(Tail(sorted), e)

RECURSIVE SortSolvers(_)
\* Array.prototype.sort with that comparator (stable)
SortSolvers(list) ==
  IF list = <<>> THEN <<>>
  ELSE InsertSorted(SortSolvers(SubSeq(list, 1, Len(list) - 1)), list[Len(list)])

processLeaderboardData(chs) ==
  LET acc == ProcessFrom([solved |-> 0, points |-> 0, solvers |-> <<>>], chs, 1)
      withPercent ==
        [i \in DOMAIN acc.solvers |->
           [name          |-> acc.solvers[i].name,
            points        |-> acc.solvers[i].points,
            solved        |-> acc.solvers[i].solved,
            challenges    |-> acc.solvers[i].challenges,
            percentSolved |-> Percent(acc.solvers[i].solved, acc.solved),
            percentPoints |-> Percent(acc.solvers[i].points, acc.points)]]
  IN  [solvers |-> SortSolvers(withPercent),
       totals  |-> [challenges |-> Len(chs),
                    solved     |-> acc.solved,
                    points     |-> acc.points]]

NoBoard == [done |-> FALSE, solvers |-> <<>>,
            totals |-> [challenges |-> 0, solved |-> 0, points |-> 0]]

Leaderboard ==
  /\ ~board.done
  /\ board' = [done    |-> TRUE,
               solvers |-> processLeaderboardData(challenges).solvers,
               totals  |-> processLeaderboardData(challenges).totals]
  /\ UNCHANGED challenges

InitBoard ==
  /\ challenges \in SeqsUpTo(Challenges, MaxChallenges)
  /\ board = NoBoard
  /\ IdleParse /\ IdleSolvers /\ IdleLoc /\ IdleCreate /\ IdleCommands

NextBoard == Leaderboard /\ UNCHANGED <<parseVars, solverVars, locVars, createVars, commandVars>>

SpecBoard == InitBoard /\ [][NextBoard]_vars

(***************************************************************************)
(* Sums over the scanned challenges, for the statements about the board.   *)
(***************************************************************************)
CompletedIndexes(chs) == {i \in DOMAIN chs : Truthy(chs[i].isCompleted)}

RECURSIVE SumOver(_, _)
\* the sum of f[i] for the i of the finite set S
SumOver(f, S) ==
  IF S = {} THEN 0
  ELSE LET i == CHOOSE i \in S : TRUE IN f[i] + SumOver(f, S \ {i})

CompletedPoints(chs) ==
  SumOver([i \in DOMAIN chs |-> chs[i].points], CompletedIndexes(chs))

\* how often the name stands in the decomposed solver string
Occurrences(name, list) == Cardinality({k \in DOMAIN list : list[k] = name})

CreditedPoints(name, chs) ==
  SumOver([i \in DOMAIN chs |->
             chs[i].points * Occurrences(name, processSolvers(chs[i].solver))],
          CompletedIndexes(chs))

CreditedSolves(name, chs) ==
  SumOver([i \in DOMAIN chs |-> Occurrences(name, processSolvers(chs[i].solver))],
          CompletedIndexes(chs))

SolverPointsSum(b) ==
  SumOver([i \in DOMAIN b.solvers |-> b.solvers[i].points], DOMAIN b.solvers)

OnlyCompleted(chs) == SelectSeq(chs, LAMBDA ch : Truthy(ch.isCompleted))

Won(p, s)  == Challenge(p, JsBool(TRUE), s)
Open(p, s) == Challenge(p, JsBool(FALSE), s)

ExampleChallenges ==
  << Won(100, <<ALICE>>), Won(200, <<BOB>>), Won(300, <<ALICE>>),
     Open(400, <<ALICE>>) >>

(***************************************************************************)
(* C2.  The board's totals count every scanned writeup as a challenge, the *)
(* completed ones as solved and only their points as points; a challenge   *)
(* that is not completed changes no solver's record: the solvers are those *)
(* of the completed challenges alone.  Points 100, 200, 300 solved and 400 *)
(* open give 4 challenges, 3 solved and 600 points.                        *)
(***************************************************************************)
C2_Totals ==
  /\ processLeaderboardData(ExampleChallenges).totals
       = [challenges |-> 4, solved |-> 3, points |-> 600]
  /\ board.done =>
       /\ board.totals.challenges = Len(challenges)
       /\ board.totals.solved = Cardinality(CompletedIndexes(challenges))
       /\ board.totals.points = CompletedPoints(challenges)
       /\ board.solvers = processLeaderboardData(OnlyCompleted(challenges)).solvers

\* an open challenge worth 200 with a solver named beside a solved one worth 100
C2_Witness ==
  /\ board.done
  /\ challenges = << Won(100, <<ALICE>>), Open(200, <<ALICE>>) >>
  /\ board.totals = [challenges |-> 2, solved |-> 1, points |-> 100]

(***************************************************************************)
(* C3.  Every name of a completed challenge's decomposed solver string is  *)
(* on the board, and a solver's points and solves are the full points and  *)
(* one solve of every completed challenge for each time the name stands in *)
(* its decomposition; hence the solvers' points add up to the total points *)
(* when every completed challenge has exactly one solver.                  *)
(***************************************************************************)
C3_FullCredit ==
  board.done =>
    /\ \A i \in CompletedIndexes(challenges) :
         \A k \in DOMAIN processSolvers(challenges[i].solver) :
           HasSolver(board.solvers, processSolvers(challenges[i].solver)[k])
    /\ \A j \in DOMAIN board.solvers :
         /\ board.solvers[j].points
              = CreditedPoints(board.solvers[j].name, challenges)
         /\ board.solvers[j].solved
              = CreditedSolves(board.solvers[j].name, challenges)
    /\ (\A i \in CompletedIndexes(challenges) :
          Len(processSolvers(challenges[i].solver)) = 1)
         => SolverPointsSum(board) = board.totals.points

\* a 100-point challenge solved by Alice and Bob: 200 credited, 100 in total
C3_Witness ==
  /\ board.done
  /\ challenges = << Won(100, <<ALICE, COMMA, SP, BOB>>) >>
  /\ SolverPointsSum(board) = 200
  /\ board.totals.points = 100

(***************************************************************************)
(* C5.  When the total points are zero every solver's percentPoints is 0,  *)
(* and when the solved total is zero every solver's percentSolved is 0.    *)
(***************************************************************************)
C5_ZeroPercent ==
  board.done =>
    /\ board.totals.points = 0 =>
         \A j \in DOMAIN board.solvers : board.solvers[j].percentPoints = Number(0)
    /\ board.totals.solved = 0 =>
         \A j \in DOMAIN board.solvers : board.solvers[j].percentSolved = Number(0)

(***************************************************************************)
(* The location resolver.  A path is the sequence of its names; the empty  *)
(* path stands for null.  The repository is /repo; /out lies outside it.   *)
(* The competition is called CtfName; config.parentDir is unset, ParentName *)
(* or CtfName itself.                                                      *)
(***************************************************************************)
CtfName    == "CTF_Name"
ParentName == "parent_dir"
OtherName  == "other"
Unset      == ""

RepoRoot == <<"repo">>
Outside  == <<"out">>

Candidates ==
  { RepoRoot,
    RepoRoot \o <<CtfName>>,
    RepoRoot \o <<CtfName, CtfName>>,
    RepoRoot \o <<ParentName>>,
    RepoRoot \o <<ParentName, CtfName>>,
    RepoRoot \o <<OtherName>>,
    RepoRoot \o <<OtherName, CtfName>>,
    RepoRoot \o <<OtherName, ParentName>>,
    RepoRoot \o <<OtherName, ParentName, CtfName>>,
    Outside,
    Outside \o <<CtfName>> }

dirname(p) == SubSeq(p, 1, Len(p) - 1)
basename(p) == p[Len(p)]
join(p, name) == Append(p, name)

ParentClosed(S) == \A d \in S : Len(d) > 1 => dirname(d) \in S

\* fs.mkdirp / fs.ensureDir
mkdirp(ds, p) == ds \cup {SubSeq(p, 1, k) : k \in 1..Len(p)}

\* gitHelpers.findRepoRoot: the top level of the work tree that holds dir
findRepoRoot(dir) == IF dir # <<>> /\ Head(dir) = "repo" THEN RepoRoot ELSE <<>>

Returned(p, ds) == [kind |-> "path", path |-> p, dirs |-> ds]
Thrown(ds)      == [kind |-> "Not in a git repository", path |-> <<>>, dirs |-> ds]

MutValidateLocation(at, ds, parent) ==
  LET repoRoot == findRepoRoot(at)
  IN  IF repoRoot = <<>> THEN Thrown(ds)
      ELSE IF basename(at) = CtfName THEN Returned(at, ds)
      ELSE IF parent # Unset
              /\ (basename(at) = parent \/ join(repoRoot, parent) \in ds)
           THEN Returned(join(join(repoRoot, parent), CtfName),
                         mkdirp(ds, join(join(repoRoot, parent), CtfName)))
      ELSE Returned(join(repoRoot, CtfName), mkdirp(ds, join(repoRoot, CtfName)))

validateLocation(at, ds, parent) ==
  LET repoRoot == findRepoRoot(at)
  IN  IF repoRoot = <<>> THEN Thrown(ds)
      \* 1. Already in the CTF directory
      ELSE IF basename(at) = CtfName THEN Returned(at, ds)
      \* 2. In parent directory (if specified)
      ELSE IF parent # Unset /\ basename(at) = parent /\ join(at, CtfName) \in ds
           THEN Returned(join(at, CtfName), ds)
      ELSE IF parent # Unset /\ join(repoRoot, parent) \in ds
           THEN Returned(join(join(repoRoot, parent), CtfName),
                         mkdirp(ds, join(join(repoRoot, parent), CtfName)))
      \* 3. In repo root
      ELSE IF join(repoRoot, CtfName) \in ds
           THEN Returned(join(repoRoot, CtfName), ds)
      \* 4. Create CTF directory in repo root if not found elsewhere
      ELSE Returned(join(repoRoot, CtfName), mkdirp(ds, join(repoRoot, CtfName)))

NotLocated == [kind |-> "none", path |-> <<>>]

ValidateLocation ==
  /\ located = NotLocated
  /\ LET r == validateLocation(cwd, dirs, parentDir)
     IN  /\ located' = [kind |-> r.kind, path |-> r.path]
         /\ dirs' = r.dirs
  /\ UNCHANGED <<cwd, parentDir>>

InitLoc ==
  /\ dirs \in {S \in SUBSET Candidates :
                 RepoRoot \in S /\ Outside \in S /\ ParentClosed(S)}
  /\ cwd \in dirs
  /\ parentDir \in {Unset, ParentName, CtfName}
  /\ located = NotLocated
  /\ IdleParse /\ IdleSolvers /\ IdleBoard /\ IdleCreate /\ IdleCommands

NextLoc == ValidateLocation /\ UNCHANGED <<parseVars, solverVars, boardVars, createVars, commandVars>>

SpecLoc == InitLoc /\ [][NextLoc]_vars

(***************************************************************************)
(* C6, as claimed.  validateLocation throws 'Not in a git repository' and  *)
(* creates nothing when there is no repository root; else it yields the    *)
(* current directory when its basename is N; else R/P/N, created if        *)
(* missing, when P is set and the current directory's basename is P or R/P *)
(* exists; else R/N when it exists; else a newly created R/N.              *)
(***************************************************************************)
ClaimedLadder(at, ds, parent) ==
  LET R   == findRepoRoot(at)
      RPN == join(join(R, parent), CtfName)
      RN  == join(R, CtfName)
  IN  IF R = <<>> THEN Thrown(ds)
      ELSE IF basename(at) = CtfName THEN Returned(at, ds)
      ELSE IF parent # Unset /\ (basename(at) = parent \/ join(R, parent) \in ds)
           THEN Returned(RPN, ds \cup {dirname(RPN), RPN})
      ELSE Returned(RN, ds \cup {RN})

\* C6 as claimed: every call of validateLocation follows the claimed ladder
C6_Original ==
  [][located = NotLocated /\ located' # NotLocated
       => /\ located'.kind = ClaimedLadder(cwd, dirs, parentDir).kind
          /\ located'.path = ClaimedLadder(cwd, dirs, parentDir).path
          /\ dirs' = ClaimedLadder(cwd, dirs, parentDir).dirs]_vars

(***************************************************************************)
(* C6, amended.  As claimed, but for the second step: when P is set, the   *)
(* current directory's basename is P and it holds a directory N, that      *)
(* directory is the outcome; otherwise R/P/N, created if missing, is the   *)
(* outcome when P is set and R/P exists; a current directory called P      *)
(* alone does not make R/P/N the outcome.                                  *)
(***************************************************************************)
AmendedLadder(at, ds, parent) ==
  LET R   == findRepoRoot(at)
      RPN == join(join(R, parent), CtfName)
      RN  == join(R, CtfName)
  IN  CASE R = <<>> -> Thrown(ds)
        [] R # <<>> /\ basename(at) = CtfName -> Returned(at, ds)
        [] R # <<>> /\ basename(at) # CtfName /\ parent # Unset
             /\ basename(at) = parent /\ join(at, CtfName) \in ds
             -> Returned(join(at, CtfName), ds)
        [] R # <<>> /\ basename(at) # CtfName /\ parent # Unset
             /\ ~(basename(at) = parent /\ join(at, CtfName) \in ds)
             /\ join(R, parent) \in ds
             -> Returned(RPN, ds \cup {RPN})
        [] OTHER -> Returned(RN, ds \cup {RN})

\* C6 amended: every call of validateLocation follows the amended ladder
C6_Ladder ==
  [][located = NotLocated /\ located' # NotLocated
       => /\ located'.kind = AmendedLadder(cwd, dirs, parentDir).kind
          /\ located'.path = AmendedLadder(cwd, dirs, parentDir).path
          /\ dirs' = AmendedLadder(cwd, dirs, parentDir).dirs]_vars

\* in a directory called P that is not R/P and holds N, while R/P is missing
C6_Witness ==
  /\ cwd = RepoRoot \o <<OtherName, ParentName>>
  /\ parentDir = ParentName
  /\ RepoRoot \o <<ParentName>> \notin dirs
  /\ located = [kind |-> "path",
                path |-> RepoRoot \o <<OtherName, ParentName, CtfName>>]

(***************************************************************************)
(* The scaffolder.  Names are sequences of characters; a path is the       *)
(* sequence of its names, a relative path the sequence of its segments.    *)
(***************************************************************************)
LowerLetters == {"a", "b", "c", "e", "i", "m", "n", "o", "p", "r", "s", "t",
                 "v", "w", "x", "y", "d"}
UpperLetters == {"A", "C", "W"}
DigitChar    == <<"0", "1", "2", "3", "4", "5", "6", "7", "8", "9">>
DigitChars   == {DigitChar[i] : i \in DOMAIN DigitChar}

\* \w
IsWordChar(c) == c \in LowerLetters \cup UpperLetters \cup DigitChars \cup {"_"}

LowerChar(c) ==
  CASE c = "A" -> "a"
    [] c = "C" -> "c"
    [] c = "W" -> "w"
    [] OTHER   -> c

RECURSIVE ReplaceRuns(_, _, _)
\* .replace(/c+/g, by) for the one character c
ReplaceRuns(s, c, by) ==
  IF s = <<>> THEN <<>>
  ELSE IF Head(s) # c THEN <<Head(s)>> \o ReplaceRuns(Tail(s), c, by)
  ELSE IF Len(s) > 1 /\ s[2] = c THEN ReplaceRuns(Tail(s), c, by)
  ELSE <<by>> \o ReplaceRuns(Tail(s), c, by)

\* .replace(/[^\w\-_]/g, '')
KeepWordChars(s) == SelectSeq(s, LAMBDA c : IsWordChar(c) \/ c \in {"-", "_"})

slugify(str) ==
  ReplaceRuns(
    KeepWordChars(
      ReplaceRuns([i \in DOMAIN trim(str) |-> LowerChar(trim(str)[i])], " ", "_")),
    "-", "_")

RECURSIVE Digits(_)
\* Number.prototype.toString of a natural number
Digits(n) ==
  IF n < 10 THEN <<DigitChar[n + 1]>>
  ELSE Digits(n \div 10) \o <<DigitChar[(n % 10) + 1]>>

RECURSIVE padStart2(_)
\* String.prototype.padStart(2, '0')
padStart2(s) == IF Len(s) < 2 THEN padStart2(<<"0">> \o s) ELSE s

\* String(n).padStart(2, '0')
Pad2(n) == padStart2(Digits(n))

TsDigits == 6

\* .slice(-6)
LastChars(s, k) == IF Len(s) <= k THEN s ELSE SubSeq(s, Len(s) - k + 1, Len(s))

\* Math.floor(Date.now() / 1000).toString().slice(-6)
timestamp(seconds) == LastChars(Digits(seconds), TsDigits)

WEB    == <<"W", "e", "b">>
CRYPTO == <<"C", "r", "y", "p", "t", "o">>

\* an entry of an object: key and value, in the order of Object.entries
Entry(k, v) == [key |-> k, value |-> v]

\* categories: { 1: 'Web', 2: 'Crypto' }
Categories == <<Entry(<<"1">>, WEB), Entry(<<"2">>, CRYPTO)>>

TaskNames == { <<"A", " ", "b", "-", "c", "!">> }
TaskNums  == {1}

MAIN   == <<"m", "a", "i", "n">>
MASTER == <<"m", "a", "s", "t", "e", "r">>
DEV    == <<"d", "e", "v">>

Primary == {MAIN, MASTER}

\* the folders and files of a task
folderTemplate == {<<"challenge_files">>, <<"workspace">>, <<"exploit">>,
                   <<"screenshots">>}
WriteupName == <<"writeup.md">>
NotesName   == <<"notes.txt">>

CategoryFolderName(catNum, category) == padStart2(catNum) \o <<"_">> \o category
TaskFolderName(taskNum, taskSlug)    == Pad2(taskNum) \o <<"_">> \o taskSlug
UniqueFolderName(taskNum, taskSlug, seconds) ==
  Pad2(taskNum) \o <<"_">> \o taskSlug \o <<"_">> \o timestamp(seconds)

\* catSlug-NN-taskSlug
BranchName(category, taskNum, taskSlug) ==
  [i \in DOMAIN slugify(category) |-> LowerChar(slugify(category)[i])]
    \o <<"-">> \o Pad2(taskNum) \o <<"-">> \o taskSlug
UniqueBranchName(branchName, seconds) == branchName \o <<"-">> \o timestamp(seconds)

\* fs.ensureDir: the path and every missing parent
ensureDir(ds, p) == mkdirp(ds, p)

\* the writeup create writes: title, category, placeholders
WriteupContent(taskName, category) ==
  [title |-> taskName, category |-> category, points |-> "TBD", flag |-> "TBD",
   solver |-> "TBD", edited |-> FALSE]
EmptyFile == [title |-> <<>>, category |-> <<>>, points |-> "", flag |-> "",
              solver |-> "", edited |-> FALSE]

\* fs.writeFile / fs.createFile
writeFile(fl, p, content) ==
  [q \in DOMAIN fl \cup {p} |-> IF q = p THEN content ELSE fl[q]]

FailPoints == {"none", "getCurrentBranch", "branchList", "branch", "checkout",
               "add", "commit", "getRemotes", "push"}

\* one git call of createAndCheckoutBranch: the call named by fail rejects
BranchOutcome(ok, g, failed) == [ok |-> ok, git |-> g, failed |-> failed]

MutCheckoutBranch(g, category, taskNum, taskSlug, seconds, fail) ==
  LET branchName   == BranchName(category, taskNum, taskSlug)
      branchExists == branchName \in g.branches
      target       == IF branchExists THEN UniqueBranchName(branchName, seconds)
                      ELSE branchName
      made         == [g EXCEPT !.branches = @ \cup {target}]
  IN  IF fail = "getCurrentBranch" THEN BranchOutcome(FALSE, g, "getCurrentBranch")
      ELSE IF g.current \notin Primary THEN BranchOutcome(FALSE, g, "none")
      ELSE IF fail = "branchList" THEN BranchOutcome(FALSE, g, "branchList")
      ELSE IF target \in g.branches THEN BranchOutcome(FALSE, g, "branch exists")
      ELSE IF fail = "branch" THEN BranchOutcome(FALSE, g, "branch")
      ELSE IF fail = "checkout" THEN BranchOutcome(TRUE, made, "none")
      ELSE BranchOutcome(TRUE, [made EXCEPT !.current = target], "none")

MutCreateAndCheckoutBranch(g, category, taskNum, taskSlug, seconds, fail) ==
  LET branchName   == BranchName(category, taskNum, taskSlug)
      branchExists == branchName \in g.branches
      target       == IF branchExists THEN UniqueBranchName(branchName, seconds)
                      ELSE branchName
      made         == [g EXCEPT !.branches = @ \cup {target}]
  IN  IF fail = "getCurrentBranch" THEN BranchOutcome(FALSE, g, "getCurrentBranch")
      ELSE IF fail = "branchList" THEN BranchOutcome(FALSE, g, "branchList")
      ELSE IF target \in g.branches THEN BranchOutcome(FALSE, g, "branch exists")
      ELSE IF fail = "branch" THEN BranchOutcome(FALSE, g, "branch")
      ELSE IF fail = "checkout" THEN BranchOutcome(FALSE, made, "checkout")
      ELSE BranchOutcome(TRUE, [made EXCEPT !.current = target], "none")

createAndCheckoutBranch(g, category, taskNum, taskSlug, seconds, fail) ==
  LET branchName   == BranchName(category, taskNum, taskSlug)
      branchExists == branchName \in g.branches
      target       == IF branchExists THEN UniqueBranchName(branchName, seconds)
                      ELSE branchName
      made         == [g EXCEPT !.branches = @ \cup {target}]
  IN  \* getCurrentBranch yields null when git fails
      IF fail = "getCurrentBranch" THEN BranchOutcome(FALSE, g, "getCurrentBranch")
      ELSE IF g.current \notin Primary THEN BranchOutcome(FALSE, g, "none")
      \* git.branch()
      ELSE IF fail = "branchList" THEN BranchOutcome(FALSE, g, "branchList")
      \* git.branch([name]) rejects when the name is taken
      ELSE IF target \in g.branches THEN BranchOutcome(FALSE, g, "branch exists")
      ELSE IF fail = "branch" THEN BranchOutcome(FALSE, g, "branch")
      \* git.checkout(name)
      ELSE IF fail = "checkout" THEN BranchOutcome(FALSE, made, "checkout")
      ELSE BranchOutcome(TRUE, [made EXCEPT !.current = target], "none")

Commit(g, taskFolder, taskName) ==
  [branch |-> g.current, message |-> <<"Add task: ">> \o taskName,
   added |-> taskFolder]

PublishOutcome(g, failed, threw) == [git |-> g, failed |-> failed, threw |-> threw]

MutPublish(g, taskFolder, taskName, remotes, fail) ==
  LET committed == [g EXCEPT !.commits = @ \cup {Commit(g, taskFolder, taskName)}]
  IN  IF fail = "add" THEN PublishOutcome(g, "add", TRUE)
      ELSE IF fail = "commit" THEN PublishOutcome(g, "commit", TRUE)
      ELSE IF fail = "getRemotes" THEN PublishOutcome(committed, "getRemotes", TRUE)
      ELSE IF remotes = {} THEN PublishOutcome(committed, "none", FALSE)
      ELSE IF fail = "push" THEN PublishOutcome(committed, "push", TRUE)
      ELSE PublishOutcome([committed EXCEPT !.pushed = @ \cup {g.current}],
                          "none", FALSE)

\* the git workflow after the files are written; both try blocks catch
publish(g, taskFolder, taskName, remotes, fail) ==
  LET committed == [g EXCEPT !.commits = @ \cup {Commit(g, taskFolder, taskName)}]
  IN  IF fail = "add" THEN PublishOutcome(g, "add", FALSE)
      ELSE IF fail = "commit" THEN PublishOutcome(g, "commit", FALSE)
      ELSE IF fail = "getRemotes" THEN PublishOutcome(committed, "getRemotes", FALSE)
      ELSE IF remotes = {} THEN PublishOutcome(committed, "none", FALSE)
      ELSE IF fail = "push" THEN PublishOutcome(committed, "push", FALSE)
      ELSE PublishOutcome([committed EXCEPT !.pushed = @ \cup {g.current}],
                          "none", FALSE)

\* Object.entries(config.categories).find(([key, value]) => value === category)[0]
CatNum(categories, category) ==
  LET first == CHOOSE k \in DOMAIN categories :
                 /\ categories[k].value = category
                 /\ \A j \in DOMAIN categories : categories[j].value = category => k <= j
  IN  categories[first].key

\* if (!await fs.pathExists(p)) write p
WriteTemplate(fl, p, content) ==
  IF p \in DOMAIN fl THEN fl ELSE writeFile(fl, p, content)

createTaskStructure(ds, fl, g, eventRoot, category, taskName, taskNum, categories, seconds, remotes, fail) ==
  LET catNum         == CatNum(categories, category)
      categoryFolder == join(eventRoot, CategoryFolderName(catNum, category))
      taskSlug       == slugify(taskName)
      plainFolder    == Append(categoryFolder, TaskFolderName(taskNum, taskSlug))
      branched       == IF g.isRepo
                        THEN createAndCheckoutBranch(g, category, taskNum, taskSlug,
                                                     seconds, fail)
                        ELSE BranchOutcome(FALSE, g, "none")
      taskFolder     == IF plainFolder \in ds
                        THEN Append(categoryFolder,
                                    UniqueFolderName(taskNum, taskSlug, seconds))
                        ELSE plainFolder
      ds1            == ensureDir(ensureDir(ds, categoryFolder), taskFolder)
                          \cup {Append(taskFolder, sub) : sub \in folderTemplate}
      fl1            == WriteTemplate(fl, Append(taskFolder, WriteupName),
                                      WriteupContent(taskName, category))
      fl2            == WriteTemplate(fl1, Append(taskFolder, NotesName), EmptyFile)
      published      == IF branched.ok
                        THEN publish(branched.git, taskFolder, taskName, remotes, fail)
                        ELSE PublishOutcome(branched.git, branched.failed, FALSE)
  IN  [folders |-> ds1, files |-> fl2, git |-> published.git,
       folder |-> taskFolder, branchCreated |-> branched.ok,
       failed |-> published.failed, threw |-> published.threw]

NoRun == [done |-> FALSE, root |-> <<>>, category |-> <<>>, taskNum |-> 0,
          taskName |-> <<>>, from |-> <<>>, folder |-> <<>>, branchCreated |-> FALSE,
          failed |-> "none", exit |-> 0, said |-> {}]

SaidCreated == "Created task at"
SaidFailed  == "Task creation failed"

MaxCreates == 2
MaxTicks   == 1

Dot    == <<".">>
DotDot == <<".", ".">>

RECURSIVE resolve(_, _)
\* path.resolve(base, rel)
resolve(base, rel) ==
  IF rel = <<>> THEN base
  ELSE IF Head(rel) = Dot THEN resolve(base, Tail(rel))
  ELSE IF Head(rel) = DotDot
       THEN resolve(IF base = <<>> THEN base ELSE dirname(base), Tail(rel))
  ELSE resolve(join(base, Head(rel)), Tail(rel))

\* Object.keys(structure)
EventKeys(cfg) == {cfg.structure[i].key : i \in DOMAIN cfg.structure}

\* structure[selectedEvent]?.categories || {}
EventCategories(cfg, selectedEvent) ==
  IF selectedEvent \in EventKeys(cfg)
  THEN cfg.structure[CHOOSE i \in DOMAIN cfg.structure :
                       cfg.structure[i].key = selectedEvent].categories
  ELSE <<>>

\* the task root directory; path.join throws on an undefined segment
TaskRoot(at, cfg, isInEvent, selectedEvent) ==
  IF isInEvent THEN [threw |-> FALSE, path |-> at]
  ELSE IF cfg.parentDir # <<>>
       THEN [threw |-> FALSE, path |-> join(resolve(at, cfg.parentDir), selectedEvent)]
  ELSE IF cfg.eventName = Undefined THEN [threw |-> TRUE, path |-> <<>>]
  ELSE [threw |-> FALSE, path |-> join(join(at, cfg.eventName), selectedEvent)]

\* create that goes on without a configuration and makes a directory
MutCreateWithoutConfig ==
  /\ runs < MaxCreates
  /\ ~config.present
  /\ last' = [NoRun EXCEPT !.done = TRUE, !.from = git.current, !.said = {SaidCreated}]
  /\ runs' = runs + 1
  /\ folders' = folders \cup {join(cwd, Undefined)}
  /\ UNCHANGED <<now, config, files, git>>

\* create without a configuration: process.exit(1)
CreateWithoutConfig ==
  /\ runs < MaxCreates
  /\ ~config.present
  /\ last' = [NoRun EXCEPT !.done = TRUE, !.from = git.current, !.exit = 1,
                           !.said = {SaidNoConfig}]
  /\ runs' = runs + 1
  /\ UNCHANGED <<now, config, folders, files, git>>

\* what git.getRemotes() may answer
Remotes == {{}, {"origin"}}

\* create: the answers to its prompts, what git answers, then createTaskStructure
Create(event, category, taskNum, taskName, remotes, fail) ==
  /\ runs < MaxCreates
  /\ config.present
  /\ LET isInEvent       == basename(cwd) \in EventKeys(config)
         selectedEvent   == IF isInEvent THEN basename(cwd) ELSE event
         eventCategories == EventCategories(config, selectedEvent)
         taskRoot        == TaskRoot(cwd, config, isInEvent, selectedEvent)
     IN  /\ event \in EventKeys(config) /\ isInEvent => event = selectedEvent
         /\ \E i \in DOMAIN eventCategories : eventCategories[i].value = category
         /\ IF taskRoot.threw
            THEN /\ last' = [NoRun EXCEPT !.done = TRUE, !.from = git.current,
                                          !.exit = 1, !.said = {SaidFailed}]
                 /\ UNCHANGED <<folders, files, git>>
            ELSE \E r \in {createTaskStructure(ensureDir(folders, taskRoot.path), files,
                                git, taskRoot.path, category, taskName, taskNum,
                                eventCategories, now, remotes, fail)} :
                   /\ folders' = r.folders
                   /\ files' = r.files
                   /\ git' = r.git
                   /\ last' = [done |-> TRUE, root |-> taskRoot.path,
                               category |-> category, taskNum |-> taskNum,
                               taskName |-> taskName, from |-> git.current,
                               folder |-> r.folder, branchCreated |-> r.branchCreated,
                               failed |-> r.failed,
                               exit |-> IF r.threw THEN 1 ELSE 0,
                               said |-> IF r.threw THEN {SaidCreated, SaidFailed}
                                        ELSE {SaidCreated}]
  /\ runs' = runs + 1
  /\ UNCHANGED <<now, config>>

Epoch == 1700000000

\* a second passes
Tick ==
  /\ now - Epoch < MaxTicks
  /\ now' = now + 1
  /\ UNCHANGED <<config, folders, files, git, last, runs>>

\* the user returns to the primary branch
Checkout(b) ==
  /\ git.isRepo
  /\ b \in git.branches \cap Primary /\ b # git.current
  /\ git' = [git EXCEPT !.current = b]
  /\ UNCHANGED <<now, config, folders, files, last, runs>>

\* the user works on a writeup, the first one to be worked on
EditWriteup(p) ==
  /\ p \in DOMAIN files
  /\ p[Len(p)] = WriteupName
  /\ \A q \in DOMAIN files : ~files[q].edited
  /\ files' = [files EXCEPT ![p].edited = TRUE]
  /\ UNCHANGED <<now, config, folders, git, last, runs>>

\* the configuration and the directories of the create tests
Repo      == <<"r", "e", "p", "o">>
Testevent == <<"E", "v">>
Round1    == <<"R", "1">>
TestConfig ==
  [present |-> TRUE, eventName |-> Testevent, ctfName |-> Undefined,
   parentDir |-> <<Testevent>>,
   structure |-> <<[key |-> Round1, originalName |-> Undefined,
                    categories |-> Categories]>>]
TestCwd  == <<Repo>>
TestRoot == <<Repo, Testevent, Round1>>

\* a task a team mate scaffolded and published before: folder, files, branch
PulledTask == [category |-> WEB, taskNum |-> 1, taskName |-> <<"A", " ", "b", "-", "c", "!">>]
TaskPath(t) ==
  TestRoot \o <<CategoryFolderName(CatNum(Categories, t.category), t.category),
                TaskFolderName(t.taskNum, slugify(t.taskName))>>
TaskTree(t) ==
  mkdirp({}, TaskPath(t)) \cup {Append(TaskPath(t), sub) : sub \in folderTemplate}
TaskFiles(t) == {Append(TaskPath(t), WriteupName), Append(TaskPath(t), NotesName)}
TaskBranch(t) == BranchName(t.category, t.taskNum, slugify(t.taskName))

InitCreate ==
  /\ now = Epoch
  /\ config \in {NoConfig, TestConfig}
  /\ cwd = TestCwd
  /\ runs = 0
  /\ \E pulled \in SUBSET {PulledTask} :
       /\ folders = {TestCwd} \cup UNION {TaskTree(t) : t \in pulled}
       /\ files = [p \in UNION {TaskFiles(t) : t \in pulled} |->
                     IF p[Len(p)] = WriteupName
                     THEN WriteupContent(PulledTask.taskName, PulledTask.category)
                     ELSE EmptyFile]
       /\ \/ git = [isRepo |-> FALSE, branches |-> {},
                    current |-> <<>>, commits |-> {}, pushed |-> {}]
          \/ \E primary \in Primary :
               \E current \in {primary, DEV} :
                 git = [isRepo |-> TRUE,
                        branches |-> {primary, DEV} \cup {TaskBranch(t) : t \in pulled},
                        current |-> current, commits |-> {}, pushed |-> {}]
  /\ last = NoRun
  /\ dirs = {} /\ parentDir = "" /\ located = [kind |-> "none", path |-> <<>>]
  /\ IdleParse /\ IdleSolvers /\ IdleBoard /\ IdleCommands

IdleRest == UNCHANGED <<parseVars, solverVars, boardVars, locVars, commandVars>>

\* the answers create may get from its prompts
EventAnswers    == {Round1}
CategoryAnswers == {Categories[k].value : k \in DOMAIN Categories}

NextCreate ==
  \/ CreateWithoutConfig /\ IdleRest
  \/ /\ \E event \in EventAnswers, category \in CategoryAnswers,
           taskNum \in TaskNums, taskName \in TaskNames,
           remotes \in Remotes, fail \in FailPoints :
          \* what getRemotes answers shows only when no call fails
          /\ remotes = {} => fail = "none"
          /\ Create(event, category, taskNum, taskName, remotes, fail)
     /\ IdleRest
  \/ Tick /\ IdleRest
  \/ (\E b \in git.branches : Checkout(b)) /\ IdleRest
  \/ (\E p \in DOMAIN files : EditWriteup(p)) /\ IdleRest

SpecCreate == InitCreate /\ [][NextCreate]_vars

(***************************************************************************)
(* What the claims about create speak of.                                  *)
(***************************************************************************)
\* the task directory with its four subfolders, writeup.md and notes.txt
Scaffolded(ds, fl, taskFolder) ==
  /\ taskFolder \in ds
  /\ \A sub \in folderTemplate : Append(taskFolder, sub) \in ds
  /\ Append(taskFolder, WriteupName) \in DOMAIN fl
  /\ Append(taskFolder, NotesName) \in DOMAIN fl

\* this step is a run of create that reached createTaskStructure
CreateRan == runs' = runs + 1 /\ config.present

SameTask(a, b) ==
  /\ a.root = b.root /\ a.category = b.category
  /\ a.taskNum = b.taskNum /\ a.taskName = b.taskName

SuffixedFolder(run, seconds) ==
  run.root \o <<CategoryFolderName(CatNum(Categories, run.category), run.category),
                UniqueFolderName(run.taskNum, slugify(run.taskName), seconds)>>

(***************************************************************************)
(* C7.  Two runs of createTaskStructure, one after the other, with the     *)
(* same category, task number and task name end in two distinct task       *)
(* directories, the second one named with the timestamp suffix, and the    *)
(* second run leaves every directory and every file that was there,        *)
(* writeup.md included, as it was.                                         *)
(***************************************************************************)
C7_TwiceDistinct ==
  [][CreateRan /\ last.done /\ SameTask(last, last')
       => /\ last'.folder # last.folder
          /\ last'.folder = SuffixedFolder(last', now)
          /\ folders \subseteq folders'
          /\ \A p \in DOMAIN files : p \in DOMAIN files' /\ files'[p] = files[p]]_vars

(***************************************************************************)
(* C8.  A run of createTaskStructure changes the branches or the current   *)
(* branch only when the repository is on main or master; on any other      *)
(* branch it leaves the repository as it is (no branch, no commit, no      *)
(* push); either way the task directory with its subfolders, writeup.md    *)
(* and notes.txt exists afterwards and create has not exited with 1.       *)
(***************************************************************************)
C8_BranchOnlyFromPrimary ==
  [][CreateRan
       => /\ (git'.branches # git.branches \/ git'.current # git.current)
               => (git.isRepo /\ git.current \in Primary)
          /\ git.current \notin Primary => git' = git
          /\ Scaffolded(folders', files', last'.folder)
          /\ last'.exit # 1]_vars

\* create ran on the branch dev: nothing branched or committed, task scaffolded
C8_Witness ==
  /\ last.done /\ git.isRepo /\ last.from = DEV
  /\ ~last.branchCreated
  /\ git.current = DEV /\ git.commits = {} /\ git.pushed = {}
  /\ Scaffolded(folders, files, last.folder)
  /\ last.exit = 0

(***************************************************************************)
(* C9.  When create runs on main or master, the branch name                *)
(* category-NN-task already exists and no git call is made to fail, then   *)
(* afterwards a branch that did not exist before, named with the timestamp *)
(* suffix, exists and is checked out, every new commit is on it, and       *)
(* create has not exited with 1.                                           *)
(***************************************************************************)
InjectedBranchFailures == {"getCurrentBranch", "branchList", "branch", "checkout"}

C9_UniqueBranch ==
  [][( /\ CreateRan /\ git.isRepo /\ git.current \in Primary
       /\ BranchName(last'.category, last'.taskNum, slugify(last'.taskName))
            \in git.branches
       /\ last'.failed \notin InjectedBranchFailures )
       => /\ git'.current \notin git.branches
          /\ git'.current =
               UniqueBranchName(BranchName(last'.category, last'.taskNum,
                                           slugify(last'.taskName)), now)
          /\ git'.branches = git.branches \cup {git'.current}
          /\ \A c \in git'.commits \ git.commits : c.branch = git'.current
          /\ last'.exit # 1]_vars

(***************************************************************************)
(* C10.  After a run of create in which git add, git commit, the remote    *)
(* lookup or git push failed, the task directory with writeup.md,          *)
(* notes.txt and its four subfolders exists and create has not exited      *)
(* with status 1.                                                          *)
(***************************************************************************)
PublishFailures == {"add", "commit", "getRemotes", "push"}

C10_GitFailureNotFatal ==
  last.done /\ last.failed \in PublishFailures
    => Scaffolded(folders, files, last.folder) /\ last.exit # 1

\* the commit failed on the new branch: the task is there, create went on
C10_Witness ==
  /\ last.done /\ last.failed = "commit" /\ last.branchCreated
  /\ git.current \notin Primary \cup {DEV}
  /\ git.commits = {}
  /\ Scaffolded(folders, files, last.folder)
  /\ last.exit = 0

(***************************************************************************)
(* The project: setup writes the configuration and the event and category  *)
(* directories, create scaffolds tasks below them.  The configuration is   *)
(* the YAML file below the repository root and the entry of the key-value  *)
(* store; the repository is /repo and every working directory lies in it.  *)
(***************************************************************************)
DotFlagtrack == <<".flagtrack">>
DotGithub    == <<".github">>

\* gitHelpers.findRepoRoot as the commands call it: null outside a work tree
projectRoot(g, at) == IF g.isRepo THEN <<Head(at)>> ELSE <<>>

\* configManager.loadConfig: the file when it exists, else the store; null on an error
loadConfig(repoRoot, cf, st) ==
  IF repoRoot # <<>> /\ cf.state # "missing"
  THEN IF cf.state = "unreadable" THEN NoConfig ELSE cf.content
  ELSE st

\* configManager.configExists
configExists(repoRoot, cf, st) ==
  IF repoRoot # <<>> THEN cf.state # "missing" ELSE st.present

\* configManager.saveConfig: the store first, then the file; an error is caught
saveConfig(repoRoot, ds, cf, st, c, fail) ==
  IF repoRoot = <<>> THEN [folders |-> ds, cfgFile |-> cf, store |-> c]
  ELSE IF fail = "writeFile"
       THEN [folders |-> ensureDir(ds, join(repoRoot, DotFlagtrack)),
             cfgFile |-> cf, store |-> c]
  ELSE [folders |-> ensureDir(ds, join(repoRoot, DotFlagtrack)),
        cfgFile |-> [state |-> "ok", content |-> c], store |-> c]

RECURSIVE LeadingDigits(_)
\* the digits a string starts with
LeadingDigits(s) ==
  IF s # <<>> /\ Head(s) \in DigitChars
  THEN <<Head(s)>> \o LeadingDigits(Tail(s))
  ELSE <<>>

DigitValue(c) == (CHOOSE i \in DOMAIN DigitChar : DigitChar[i] = c) - 1

RECURSIVE parseInt(_)
\* parseInt(digits, 10)
parseInt(d) ==
  IF d = <<>> THEN 0
  ELSE parseInt(SubSeq(d, 1, Len(d) - 1)) * 10 + DigitValue(d[Len(d)])

\* key.match(/^(\d+)_/): the number the key starts with, 0 without a match
KeyIndex(key) ==
  LET d == LeadingDigits(key)
  IN  IF d # <<>> /\ Len(key) > Len(d) /\ key[Len(d) + 1] = "_"
      THEN parseInt(d) ELSE 0

MutMaxIndex(structure) == Len(structure)

\* the highest index among the keys of the structure
MaxIndex(structure) ==
  LET indexes == {KeyIndex(structure[i].key) : i \in DOMAIN structure} \cup {0}
  IN  CHOOSE m \in indexes : \A n \in indexes : n <= m

\* helpers.formatDirectoryName
formatDirectoryName(name, index) == Pad2(index) \o <<"_">> \o slugify(name)

\* categories.reduce((obj, cat, index) => { obj[formatDirectoryName(cat, index + 1)] = cat })
CategoryEntries(categories) ==
  [i \in DOMAIN categories |-> Entry(formatDirectoryName(categories[i], i), categories[i])]

\* structure[key] = event: in place when the key is there, else appended
SetEvent(structure, event) ==
  IF \E i \in DOMAIN structure : structure[i].key = event.key
  THEN [i \in DOMAIN structure |->
          IF structure[i].key = event.key THEN event ELSE structure[i]]
  ELSE Append(structure, event)

\* path.relative(from, to) || '.', for a directory to that holds from
relative(from, to) ==
  IF Len(from) = Len(to) THEN <<Dot>>
  ELSE [i \in 1..(Len(from) - Len(to)) |-> DotDot]

RECURSIVE EnsureEach(_, _, _)
\* fs.ensureDir for every name of the list below dir
EnsureEach(ds, dir, subs) ==
  IF subs = <<>> THEN ds
  ELSE EnsureEach(ensureDir(ds, join(dir, Head(subs))), dir, Tail(subs))

\* the directory names of the categories an event was given
CategoryDirs(categories) ==
  [i \in DOMAIN categories |-> formatDirectoryName(categories[i], i)]

\* verifyConfig && verifyConfig.structure && verifyConfig.structure[key]
Verified(cfg, key) == cfg.present /\ key \in EventKeys(cfg)

WorkflowName    == <<"update-readme.yml">>
WorkflowContent == [EmptyFile EXCEPT !.title = <<"Update CTF Progress README">>]

\* gitHelpers.createGitHubActions
createGitHubActions(ds, fl, repoRoot) ==
  [folders |-> ensureDir(ensureDir(ds, repoRoot \o <<DotGithub, <<"workflows">> >>),
                         repoRoot \o <<DotGithub, <<"scripts">> >>),
   files   |-> writeFile(fl, repoRoot \o <<DotGithub, <<"workflows">>, WorkflowName>>,
                         WorkflowContent)]

SetupOutcome(ds, fl, cf, st, exit) ==
  [folders |-> ds, files |-> fl, cfgFile |-> cf, store |-> st, exit |-> exit]

\* setup, adding an event/round to the project found
addEvent(at, ds, fl, g, cf, st, existingConfig, eventName, categories, fail) ==
  LET repoRoot  == projectRoot(g, at)
      key       == formatDirectoryName(eventName, MaxIndex(existingConfig.structure) + 1)
      event     == [key |-> key, originalName |-> eventName,
                    categories |-> CategoryEntries(categories)]
      parent    == IF repoRoot # <<>> THEN relative(at, repoRoot)
                   ELSE IF existingConfig.parentDir = <<existingConfig.ctfName>>
                        THEN <<Dot>>
                   ELSE existingConfig.parentDir
      updated   == [existingConfig EXCEPT
                      !.structure = SetEvent(@, event), !.parentDir = parent]
      saved     == saveConfig(repoRoot, ds, cf, st, updated, fail)
      resaved   == IF Verified(loadConfig(repoRoot, saved.cfgFile, saved.store), key)
                   THEN saved
                   ELSE saveConfig(repoRoot, saved.folders, saved.cfgFile,
                                   saved.store, updated, fail)
      eventDir  == resolve(at, parent) \o <<updated.ctfName, key>>
      made      == \* path.join throws on an undefined name; the error is caught
                   IF updated.ctfName = Undefined THEN resaved.folders
                   ELSE EnsureEach(ensureDir(resaved.folders, eventDir), eventDir,
                                   CategoryDirs(categories))
  IN  SetupOutcome(made, fl, resaved.cfgFile, resaved.store, 0)

\* setup, starting a new project
newProject(at, ds, fl, g, cf, st, mainCtfName, eventName, categories, actions, fail) ==
  LET repoRoot  == projectRoot(g, at)
      parent    == IF repoRoot # <<>> THEN relative(at, repoRoot) ELSE <<Dot>>
      key       == formatDirectoryName(eventName, 1)
      ctfConfig == [present |-> TRUE, eventName |-> Undefined,
                    ctfName |-> mainCtfName, parentDir |-> parent,
                    structure |-> <<[key |-> key, originalName |-> eventName,
                                     categories |-> CategoryEntries(categories)]>>]
      saved     == saveConfig(repoRoot, ds, cf, st, ctfConfig, fail)
      eventDir  == resolve(at, parent) \o <<mainCtfName, key>>
      made      == EnsureEach(ensureDir(saved.folders, eventDir), eventDir,
                              CategoryDirs(categories))
      resaved   == IF Verified(loadConfig(repoRoot, saved.cfgFile, saved.store), key)
                   THEN saved
                   ELSE saveConfig(repoRoot, made, saved.cfgFile, saved.store,
                                   ctfConfig, fail)
      workflow  == IF repoRoot # <<>> /\ join(repoRoot, DotGithub) \notin made /\ actions
                   THEN createGitHubActions(made, fl, repoRoot)
                   ELSE [folders |-> made, files |-> fl]
  IN  SetupOutcome(workflow.folders, workflow.files, resaved.cfgFile, resaved.store, 0)

SaidFound       == "Found existing CTF project"
SaidInstead     == "Starting setup for a new CTF project instead."
SaidAdded       == "Added event to the project"
SaidComplete    == "Setup complete!"
SaidSaved       == "Configuration saved"
SaidSetupFailed == "Setup failed"

\* the effects of a setup run together with what it printed
Saying(o, said) ==
  [folders |-> o.folders, files |-> o.files, cfgFile |-> o.cfgFile, store |-> o.store,
   exit |-> o.exit, said |-> said]

\* commands/setup
setup(at, ds, fl, g, cf, st, add, mainCtfName, eventName, categories, actions, fail) ==
  LET repoRoot          == projectRoot(g, at)
      isExistingProject == configExists(repoRoot, cf, st)
      existingConfig    == loadConfig(repoRoot, cf, st)
  IN  \* existingConfig.ctfName of null throws: process.exit(1)
      IF isExistingProject /\ ~existingConfig.present
      THEN Saying(SetupOutcome(ds, fl, cf, st, 1), {SaidSetupFailed})
      ELSE IF isExistingProject /\ add
           THEN Saying(addEvent(at, ds, fl, g, cf, st, existingConfig, eventName,
                                categories, fail), {SaidFound, SaidAdded})
      ELSE Saying(newProject(at, ds, fl, g, cf, st, mainCtfName, eventName, categories,
                             actions, fail),
                  \* saveConfig returns false on an error and never throws, so
                  \* the catch block with the retry is never entered
                  IF isExistingProject
                  THEN {SaidFound, SaidInstead, SaidSaved, SaidComplete}
                  ELSE {SaidSaved, SaidComplete})

MaxSetups == 2
MaxProjectCreates == 1

\* setup with the answers to its prompts
Setup(add, mainCtfName, eventName, categories, actions, fail) ==
  /\ setups < MaxSetups
  /\ \E r \in {setup(cwd, folders, files, git, cfgFile, store, add, mainCtfName,
                     eventName, categories, actions, fail)} :
       /\ folders' = r.folders
       /\ files' = r.files
       /\ cfgFile' = r.cfgFile
       /\ store' = r.store
       /\ config' = loadConfig(projectRoot(git, cwd), r.cfgFile, r.store)
       /\ outcome' = Ran("setup", r.exit, r.said, <<>>)
  /\ setups' = setups + 1
  /\ UNCHANGED <<cwd, now, git, last, runs>>

\* cd
Chdir(d) ==
  /\ d \in folders /\ d # cwd
  /\ cwd' = d
  /\ UNCHANGED <<now, config, folders, files, git, last, runs, cfgFile, store, setups>>

\* config.yml is damaged: reading or parsing it fails from now on
Damage ==
  /\ cfgFile.state = "ok"
  /\ cfgFile' = [cfgFile EXCEPT !.state = "unreadable"]
  /\ config' = loadConfig(projectRoot(git, cwd), cfgFile', store)
  /\ UNCHANGED <<cwd, now, folders, files, git, last, runs, store, setups>>

Ctf        == <<"C", "t", "f">>
EventNames == { <<"A", " ", "1">>, <<"b">> }
CategoryLists == { <<WEB>>, <<WEB, CRYPTO>> }

\* the directories one may change to: the repository, the project, its events
WorkDirs ==
  {<<Repo>>, <<Repo, Ctf>>}
    \cup {<<Repo, Ctf, formatDirectoryName(e, k)>> : e \in EventNames, k \in 1..MaxSetups}

InitProject ==
  /\ now = Epoch
  /\ cwd = <<Repo>>
  /\ folders = {<<Repo>>}
  /\ files = <<>>
  /\ \/ git = [isRepo |-> FALSE, branches |-> {},
               current |-> <<>>, commits |-> {}, pushed |-> {}]
     \/ git = [isRepo |-> TRUE, branches |-> {MAIN},
               current |-> MAIN, commits |-> {}, pushed |-> {}]
  /\ cfgFile = [state |-> "missing", content |-> NoConfig]
  /\ store \in {NoConfig, TestConfig}
  /\ setups = 0
  /\ config = loadConfig(projectRoot(git, cwd), cfgFile, store)
  /\ last = NoRun
  /\ runs = 0
  /\ dirs = {} /\ parentDir = "" /\ located = NotLocated
  /\ IdleParse /\ IdleSolvers /\ IdleBoard /\ IdleSolve /\ IdleMeta /\ IdleReadme

(***************************************************************************)
(* C11.  For an event and a category that setup wrote to the configuration *)
(* and created on disk, a successful create puts the task directory        *)
(* NN_slug(task name) into the category directory setup made               *)
(* (parent/competition/NN_event/NN_category) and makes no directory        *)
(* outside of it.                                                          *)
(***************************************************************************)
IsPrefix(p, q) == Len(p) <= Len(q) /\ SubSeq(q, 1, Len(p)) = p

\* the key under which the event holds the category
CategoryKey(cfg, event, category) == CatNum(EventCategories(cfg, event), category)

\* the directories setup made for the category of the event
SetupDirs(ds, cfg, event, category) ==
  {d \in ds : /\ Len(d) >= 3
              /\ SubSeq(d, Len(d) - 2, Len(d))
                   = <<cfg.ctfName, event, CategoryKey(cfg, event, category)>>}

CreateSucceeded == runs' = runs + 1 /\ last'.exit = 0

C11_SameCategoryDirectory ==
  [][CreateSucceeded /\ config.ctfName # Undefined
       => LET made == SetupDirs(folders, config, basename(last'.root), last'.category)
          IN  made # {} =>
                \E d \in made :
                  /\ last'.folder
                       = join(d, TaskFolderName(last'.taskNum, slugify(last'.taskName)))
                  /\ \A new \in folders' \ folders : IsPrefix(d, new)]_vars

(***************************************************************************)
(* C17.  loadConfig returns the contents of config.yml of the repository   *)
(* root whenever that file can be read, whatever the store holds, and the  *)
(* store's currentConfig entry when the file is missing or unreadable.     *)
(***************************************************************************)
C17_FileElseStore ==
  LET repoRoot  == projectRoot(git, cwd)
      available == repoRoot # <<>> /\ cfgFile.state = "ok"
      loaded    == loadConfig(repoRoot, cfgFile, store)
  IN  /\ available => loaded = cfgFile.content
      /\ ~available => loaded = store

(***************************************************************************)
(* C18 as stated.  A setup run where a configuration is found keeps every  *)
(* event of it, key and categories, and stores a new event under a key     *)
(* whose number is one more than the largest number of the keys found.     *)
(***************************************************************************)
SetupRan == setups' = setups + 1

Events(structure) == { structure[i] : i \in DOMAIN structure }

Keys(structure) == { structure[i].key : i \in DOMAIN structure }

RECURSIVE LargestPrefix(_)
LargestPrefix(structure) ==
  IF structure = <<>> THEN 0
  ELSE LET rest == LargestPrefix(Tail(structure))
           this == KeyIndex(Head(structure).key)
       IN  IF this > rest THEN this ELSE rest

KeepsEvents ==
  /\ Events(config.structure) \subseteq Events(config'.structure)
  /\ \A e \in Events(config'.structure) :
       e.key \notin Keys(config.structure)
         => /\ Len(e.key) > 2 /\ e.key[3] = "_"
            /\ SubSeq(e.key, 1, 2) = Pad2(LargestPrefix(config.structure) + 1)

HEADING == "# <puzzle piece> "
CATL    == "**Category:** "
PTSL    == "**Points:** "
SOLL    == "**Solver:** "
DOLLAR  == "$"
APOS    == "'"
REST    == "---\n\n## Challenge Description ..."

\* create's template around the values of its fields
Template(title, category, points, flag, solver) ==
  <<HEADING>> \o title \o <<NL, NL, CATL>> \o category \o <<SP2, NL, PTSL>> \o points
    \o <<SP2, NL, LBL, BT>> \o flag \o <<BT, SP2, NL, SOLL>> \o solver
    \o <<NL, NL, REST>>

\* the text of the writeup create wrote
RenderWriteup(w) == Template(w.title, w.category, <<w.points>>, <<w.flag>>, <<w.solver>>)

NoLine == [ok |-> FALSE, at |-> 0, cap |-> <<>>]

RECURSIVE LineSearch(_, _, _)
\* the leftmost index from i on where label stands with a character after it on its line
LineSearch(t, label, i) ==
  IF i > Len(t) THEN 0
  ELSE IF t[i] = label /\ DotRunEnd(t, i + 1) >= i + 1 THEN i
  ELSE LineSearch(t, label, i + 1)

\* content.match(/label(.+)/)
LineMatch(t, label) ==
  LET i == LineSearch(t, label, 1)
  IN  IF i = 0 THEN NoLine
      ELSE [ok |-> TRUE, at |-> i, cap |-> SubSeq(t, i + 1, DotRunEnd(t, i + 1))]

RECURSIVE DigitRunEnd(_, _)
\* the last index that \d+, started at index k, can consume (k-1 if none)
DigitRunEnd(t, k) ==
  IF k <= Len(t) /\ t[k] \in DigitChars THEN DigitRunEnd(t, k + 1) ELSE k - 1

RECURSIVE PointsSearch(_, _, _)
PointsSearch(t, orTBD, i) ==
  IF i + 1 > Len(t) THEN 0
  ELSE IF t[i] = PTSL /\ (t[i + 1] \in DigitChars \/ (orTBD /\ t[i + 1] = TBD)) THEN i
  ELSE PointsSearch(t, orTBD, i + 1)

\* content.match(/\*\*Points:\*\* (\d+)/), with orTBD /\*\*Points:\*\* (\d+|TBD)/
PointsMatch(t, orTBD) ==
  LET i == PointsSearch(t, orTBD, 1)
  IN  IF i = 0 THEN NoLine
      ELSE IF t[i + 1] \in DigitChars
           THEN [ok |-> TRUE, at |-> i, cap |-> SubSeq(t, i + 1, DigitRunEnd(t, i + 1))]
      ELSE [ok |-> TRUE, at |-> i, cap |-> <<TBD>>]

RECURSIVE FlagIndex(_, _)
\* where content.match(/\*\*Flag:\*\* BT(.+)BT/) matches, 0 when nowhere
FlagIndex(t, i) ==
  IF i > Len(t) THEN 0
  ELSE IF FlagMatchAt(t, i).ok THEN i
  ELSE FlagIndex(t, i + 1)

RECURSIVE IndexOf(_, _, _)
\* the first index from i on where the tokens of pat stand in t, 0 when nowhere
IndexOf(t, pat, i) ==
  IF i + Len(pat) - 1 > Len(t) THEN 0
  ELSE IF SubSeq(t, i, i + Len(pat) - 1) = pat THEN i
  ELSE IndexOf(t, pat, i + 1)

\* String.prototype.includes
includesText(t, pat) == IndexOf(t, pat, 1) # 0

RECURSIVE Expand(_, _, _, _, _)
\* a replacement string with its patterns: $$, $&, $ before a backtick, $', $1
Expand(repl, before, matched, after, group) ==
  IF repl = <<>> THEN <<>>
  ELSE IF Head(repl) = DOLLAR /\ Len(repl) > 1
       THEN LET rest == SubSeq(repl, 3, Len(repl))
            IN  CASE repl[2] = DOLLAR -> <<DOLLAR>> \o Expand(rest, before, matched, after, group)
                  [] repl[2] = AMP    -> matched \o Expand(rest, before, matched, after, group)
                  [] repl[2] = BT     -> before \o Expand(rest, before, matched, after, group)
                  [] repl[2] = APOS   -> after \o Expand(rest, before, matched, after, group)
                  [] repl[2] = "1" /\ group.ok
                                      -> group.cap \o Expand(rest, before, matched, after, group)
                  [] OTHER -> <<DOLLAR>> \o Expand(Tail(repl), before, matched, after, group)
  ELSE <<Head(repl)>> \o Expand(Tail(repl), before, matched, after, group)

\* the text with the match at i of length n replaced
ReplaceAt(t, i, n, group, repl) ==
  LET before  == SubSeq(t, 1, i - 1)
      matched == SubSeq(t, i, i + n - 1)
      after   == SubSeq(t, i + n, Len(t))
  IN  before \o Expand(repl, before, matched, after, group) \o after

\* content.replace(/pat/, repl) for a pattern without groups or wildcards
replace(t, pat, repl) ==
  LET i == IndexOf(t, pat, 1)
  IN  IF i = 0 THEN t ELSE ReplaceAt(t, i, Len(pat), NoMatch, repl)

\* content.replace(/label(.+)/, repl)
replaceLine(t, label, repl) ==
  LET m == LineMatch(t, label)
  IN  IF ~m.ok THEN t
      ELSE ReplaceAt(t, m.at, 1 + Len(m.cap), [ok |-> TRUE, cap |-> m.cap], repl)

\* content.replace(/\*\*Flag:\*\* BT(.+)BT/, repl)
replaceFlag(t, repl) ==
  LET i == FlagIndex(t, 1)
      m == FlagMatchAt(t, i)
  IN  IF i = 0 THEN t ELSE ReplaceAt(t, i, 3 + Len(m.cap), m, repl)

(***************************************************************************)
(* updateReadme reading a writeup.  A commit of the log is its author and  *)
(* its patch; a patch is the list of its changed lines: a sign and a text. *)
(***************************************************************************)
StartsWith(l, pat) == Len(l) >= Len(pat) /\ SubSeq(l, 1, Len(pat)) = pat

\* \s*\*\*Flag:\*\* BT TBD BT.*
IsTbdFlagLine(l) == StartsWith(TrimLeft(l), <<LBL, BT, TBD, BT>>)

\* \s*\*\*Flag:\*\* BT([^BT]+)BT
IsValueFlagLine(l) ==
  LET s == TrimLeft(l)
  IN  /\ StartsWith(s, <<LBL, BT>>)
      /\ \E j \in 4..Len(s) : s[j] = BT /\ \A k \in 3..(j - 1) : s[k] # BT

\* diff.match(flagPattern): a removed TBD flag line, an added flag line right after it
FlagPatternMatches(patch) ==
  \E k \in 1..(Len(patch) - 1) :
    /\ patch[k].sign = "-" /\ IsTbdFlagLine(patch[k].line)
    /\ patch[k + 1].sign = "+" /\ IsValueFlagLine(patch[k + 1].line)

RECURSIVE FirstMatching(_)
\* for (const commit of logs.all): the first commit whose diff matches
FirstMatching(log) ==
  IF log = <<>> THEN JsNull
  ELSE IF FlagPatternMatches(Head(log).patch) THEN JsStr(trim(Head(log).author))
  ELSE FirstMatching(Tail(log))

MutGetFlagSolver(log, fails) == FirstMatching(log)

\* getFlagSolver: null when git fails or nothing matches
getFlagSolver(log, fails) == IF fails THEN JsNull ELSE FirstMatching(log)

UnknownChallenge == <<"Unknown Challenge">>
Uncategorized    == <<"Uncategorized">>

\* updateReadme.extractMetadata
extractMetadata(t, log, fails) ==
  LET nameMatch     == LineMatch(t, HEADING)
      pointsMatch   == PointsMatch(t, FALSE)
      categoryMatch == LineMatch(t, CATL)
      solverMatch   == LineMatch(t, SOLL)
      fileSolver    == IF solverMatch.ok THEN trim(solverMatch.cap) ELSE <<UNKNOWN>>
      isCompleted   == MetaIsCompleted(t)
      gitSolver     == IF Truthy(isCompleted) THEN getFlagSolver(log, fails) ELSE JsNull
  IN  [name        |-> IF nameMatch.ok THEN nameMatch.cap ELSE UnknownChallenge,
       points      |-> IF pointsMatch.ok /\ pointsMatch.cap # <<TBD>>
                       THEN parseInt(pointsMatch.cap) ELSE 0,
       category    |-> IF categoryMatch.ok THEN trim(categoryMatch.cap) ELSE Uncategorized,
       isCompleted |-> isCompleted,
       hasFlag     |-> Truthy(MetaFlag(t)),
       solver      |-> IF Truthy(gitSolver) THEN gitSolver.s ELSE fileSolver,
       flag        |-> MetaFlag(t).s]

(***************************************************************************)
(* solve.  The repository is the current branch, the local branches, the   *)
(* uncommitted changes, the commits made, the branches on origin and the   *)
(* branches merged into the primary branch.                                *)
(***************************************************************************)
SaidNoBranch    == "Not in a git repository or unable to determine current branch."
SaidOnPrimary   == "Cannot run solve on main/master branch."
SaidNoTask      == "No task selected."
SaidNoWriteup   == "No writeup.md found"
SaidUnsolved    == "Task remains unsolved."
SaidUpdated     == "Writeup updated with missing information."
SaidNoCommit    == "Could not commit changes"
SaidNoPush      == "Could not push changes"
SaidCompleted   == "Task completed and branch cleaned up!"
SaidOpen        == "Task remains open."
SaidIncomplete  == "Task is still missing some information."
SaidResolve     == "You may need to resolve conflicts or complete the merge manually."
SaidUncommitted == "You have uncommitted changes. Please commit or stash them first."

Answered(o, a) == [o EXCEPT !.outcome.answers = a]

SolveFailPoints == {"none", "add", "commit", "push", "status", "branchList", "fetch",
                    "checkout", "pull", "merge", "pushMain", "deleteLocalBranch",
                    "pushDelete"}

MergeOutcome(v, ok, said, calls) == [vcs |-> v, ok |-> ok, said |-> said, calls |-> calls]

\* a merge step that deletes the task branch before it merges
MutMergeAndDeleteBranch(v, currentBranch, fail) ==
  LET mainBranch == IF MAIN \in v.branches THEN MAIN ELSE MASTER
      deleted    == [v EXCEPT !.branches = @ \ {currentBranch}, !.current = mainBranch]
      merged     == [deleted EXCEPT !.merged = @ \cup {currentBranch},
                                    !.remote = (@ \cup {mainBranch}) \ {currentBranch}]
  IN  IF fail = "status" THEN MergeOutcome(v, FALSE, {SaidResolve}, <<>>)
      ELSE IF v.dirty # {} THEN MergeOutcome(v, FALSE, {SaidUncommitted}, <<>>)
      ELSE IF fail # "none"
           THEN MergeOutcome(deleted, FALSE, {SaidResolve}, <<"deleteLocalBranch">>)
      ELSE MergeOutcome(merged, TRUE, {},
                        <<"deleteLocalBranch", "fetch", "checkout", "pull", "merge",
                          "push", "push">>)

\* solve.mergeAndDeleteBranch: the call named by fail rejects
mergeAndDeleteBranch(v, currentBranch, fail) ==
  LET mainBranch == IF MAIN \in v.branches THEN MAIN ELSE MASTER
      onMain     == [v EXCEPT !.current = mainBranch]
      merged     == [onMain EXCEPT !.merged = @ \cup {currentBranch}]
      pushedMain == [merged EXCEPT !.remote = @ \cup {mainBranch}]
      deleted    == [pushedMain EXCEPT !.branches = @ \ {currentBranch}]
      gone       == [deleted EXCEPT !.remote = @ \ {currentBranch}]
  IN  IF fail = "status" THEN MergeOutcome(v, FALSE, {SaidResolve}, <<>>)
      ELSE IF v.dirty # {} THEN MergeOutcome(v, FALSE, {SaidUncommitted}, <<>>)
      ELSE IF fail = "branchList" THEN MergeOutcome(v, FALSE, {SaidResolve}, <<>>)
      ELSE IF fail = "fetch" THEN MergeOutcome(v, FALSE, {SaidResolve}, <<>>)
      ELSE IF fail = "checkout" \/ mainBranch \notin v.branches
           THEN MergeOutcome(v, FALSE, {SaidResolve}, <<"fetch">>)
      ELSE IF fail = "pull"
           THEN MergeOutcome(onMain, FALSE, {SaidResolve}, <<"fetch", "checkout">>)
      ELSE IF fail = "merge"
           THEN MergeOutcome(onMain, FALSE, {SaidResolve}, <<"fetch", "checkout", "pull">>)
      ELSE IF fail = "pushMain"
           THEN MergeOutcome(merged, FALSE, {SaidResolve},
                             <<"fetch", "checkout", "pull", "merge">>)
      ELSE IF fail = "deleteLocalBranch"
           THEN MergeOutcome(pushedMain, FALSE, {SaidResolve},
                             <<"fetch", "checkout", "pull", "merge", "push">>)
      ELSE IF fail = "pushDelete"
           THEN MergeOutcome(deleted, TRUE, {},
                             <<"fetch", "checkout", "pull", "merge", "push",
                               "deleteLocalBranch">>)
      ELSE MergeOutcome(gone, TRUE, {},
                        <<"fetch", "checkout", "pull", "merge", "push",
                          "deleteLocalBranch", "push">>)

\* the commit message; match(...)[1] throws when the writeup has no solver
commitMessage(updatedContent, isFlagMissing, solvedFlag, isPointsMissing) ==
  IF isFlagMissing /\ solvedFlag
  THEN LET m == LineMatch(updatedContent, SOLL)
       IN  [threw |-> ~m.ok, text |-> <<"Add flag solution by ">> \o trim(m.cap)]
  ELSE IF isPointsMissing THEN [threw |-> FALSE, text |-> <<"Add points to task">>]
  ELSE [threw |-> FALSE, text |-> <<"Update task">>]

\* solve, after the writeup is written: add, commit, push
commitUpdate(v, message, fail) ==
  LET committed == [v EXCEPT !.commits = Append(@, [branch |-> v.current,
                                                     message |-> message.text]),
                             !.dirty = @ \ {"writeup"}]
  IN  IF fail = "add" THEN MergeOutcome(v, FALSE, {SaidUpdated, SaidNoCommit}, <<>>)
      ELSE IF message.threw \/ fail = "commit"
           THEN MergeOutcome(v, FALSE, {SaidUpdated, SaidNoCommit}, <<"add">>)
      ELSE IF fail = "push"
           THEN MergeOutcome(committed, TRUE, {SaidUpdated, SaidNoPush},
                             <<"add", "commit">>)
      ELSE MergeOutcome([committed EXCEPT !.remote = @ \cup {v.current}], TRUE,
                        {SaidUpdated}, <<"add", "commit", "push">>)

MutIsPrimaryBranch(b) == b = MAIN

\* currentBranch === 'main' || currentBranch === 'master'
isPrimaryBranch(b) == b = MAIN \/ b = MASTER

MutRemainsUnsolved(solvedFlag, isFlagMissing) == ~solvedFlag /\ ~isFlagMissing

\* !solvedFlag && isFlagMissing
remainsUnsolved(solvedFlag, isFlagMissing) == ~solvedFlag /\ isFlagMissing

SolveOutcome(w, v, r) == [writeup |-> w, vcs |-> v, outcome |-> r]

\* the last step of solve: merge when asked to, then report
finish(w, v, currentBranch, finishTask, fail, said, calls) ==
  IF finishTask
  THEN LET merged == mergeAndDeleteBranch(v, currentBranch, fail)
       IN  SolveOutcome(w, merged.vcs,
                        Ran("solve", 0, said \cup merged.said \cup {SaidCompleted},
                            calls \o merged.calls))
  ELSE SolveOutcome(w, v, Ran("solve", 0, said \cup {SaidOpen}, calls))

\* solve: the writeup with the missing fields filled in
updateContent(content, flagValue, solverName, pointsValue) ==
  LET flagMatch       == FlagMatch(content)
      isFlagMissing   == SolveIsFlagMissing(content)
      pointsMatch     == PointsMatch(content, TRUE)
      isPointsMissing == ~pointsMatch.ok \/ pointsMatch.cap = <<TBD>>
      solverMatch     == LineMatch(content, SOLL)
      solver          == trim(solverMatch.cap)
      isSolverMissing == ~solverMatch.ok \/ solver = <<>> \/ solver = <<TBD>>
      withFlag   == IF ~isFlagMissing THEN content
                    ELSE IF flagMatch.ok
                         THEN replace(content, <<LBL, BT, TBD, BT>>,
                                      <<LBL, BT>> \o flagValue \o <<BT>>)
                    ELSE replaceLine(content, CATL,
                                     <<CATL, DOLLAR, "1", NL, LBL, BT>> \o flagValue
                                       \o <<BT>>)
      withSolver == IF ~isSolverMissing THEN withFlag
                    ELSE IF solverMatch.ok
                         THEN replace(withFlag, <<SOLL, TBD>>, <<SOLL>> \o solverName)
                    ELSE replaceFlag(withFlag,
                                     <<LBL, BT, DOLLAR, "1", BT, NL, SOLL>> \o solverName)
  IN  IF ~isPointsMissing THEN withSolver
      ELSE IF pointsMatch.ok
           THEN replace(withSolver, <<PTSL, TBD>>, <<PTSL>> \o pointsValue)
      ELSE replaceLine(withSolver, CATL,
                       <<CATL, DOLLAR, "1", NL, PTSL>> \o pointsValue)

\* commands/solve
solve(cfg, w, v, lookup, solvedFlag, flagValue, solverName, pointsValue, finishTask, fail) ==
  LET content         == w.content
      isFlagMissing   == SolveIsFlagMissing(content)
      pointsMatch     == PointsMatch(content, TRUE)
      isPointsMissing == ~pointsMatch.ok \/ pointsMatch.cap = <<TBD>>
      solverMatch     == LineMatch(content, SOLL)
      solver          == trim(solverMatch.cap)
      isSolverMissing == ~solverMatch.ok \/ solver = <<>> \/ solver = <<TBD>>
      updatedContent  == updateContent(content, flagValue, solverName, pointsValue)
      written         == [w EXCEPT !.content = updatedContent]
      committed       == commitUpdate([v EXCEPT !.dirty = @ \cup {"writeup"}],
                                      commitMessage(updatedContent, isFlagMissing,
                                                    solvedFlag, isPointsMissing),
                                      fail)
      answers         == [solvedFlag  |-> IF solvedFlag THEN "yes" ELSE "no",
                          flagValue   |-> IF isFlagMissing THEN flagValue ELSE <<>>,
                          solverName  |-> IF isSolverMissing THEN solverName ELSE <<>>,
                          pointsValue |-> IF isPointsMissing THEN pointsValue ELSE <<>>]
      nowComplete     == /\ FlagMatch(updatedContent).ok
                         /\ PointsMatch(updatedContent, FALSE).ok
                         /\ LineMatch(updatedContent, SOLL).ok
                         /\ ~includesText(updatedContent, <<TBD>>)
  IN  IF ~cfg.present THEN SolveOutcome(w, v, Ran("solve", 1, {SaidNoConfig}, <<>>))
      ELSE IF v.current = <<>> THEN SolveOutcome(w, v, Ran("solve", 1, {SaidNoBranch}, <<>>))
      ELSE IF isPrimaryBranch(v.current)
           THEN SolveOutcome(w, v, Ran("solve", 1, {SaidOnPrimary}, <<>>))
      ELSE IF lookup = "none" THEN SolveOutcome(w, v, Ran("solve", 1, {SaidNoTask}, <<>>))
      ELSE IF ~w.exists THEN SolveOutcome(w, v, Ran("solve", 1, {SaidNoWriteup}, <<>>))
      ELSE IF ~isFlagMissing /\ ~isPointsMissing /\ ~isSolverMissing
           THEN finish(w, v, v.current, finishTask, fail, {}, <<>>)
      ELSE IF remainsUnsolved(solvedFlag, isFlagMissing)
           THEN Answered(SolveOutcome(w, v, Ran("solve", 0, {SaidUnsolved}, <<>>)),
                         [NoAnswers EXCEPT !.solvedFlag = "no"])
      ELSE IF nowComplete
           THEN Answered(finish(written, committed.vcs, v.current, finishTask, fail,
                                committed.said, committed.calls), answers)
      ELSE Answered(SolveOutcome(written, committed.vcs,
                                 Ran("solve", 0, committed.said \cup {SaidIncomplete},
                                     committed.calls)), answers)

MaxSolves == 2

\* validate of the points prompt: parseInt(input.trim()) is a positive number
ValidPoints(input) ==
  LeadingDigits(trim(input)) # <<>> /\ parseInt(LeadingDigits(trim(input))) > 0

\* solve with what the task lookup yields, the answers to its prompts and what git does
Solve(lookup, solvedFlag, flagValue, solverName, pointsValue, finishTask, fail) ==
  /\ solves < MaxSolves
  /\ trim(flagValue) # <<>> /\ ValidPoints(pointsValue)
  /\ \E r \in {solve(config, writeup, vcs, lookup, solvedFlag, flagValue, solverName,
                     pointsValue, finishTask, fail)} :
       /\ writeup' = r.writeup
       /\ vcs' = r.vcs
       /\ outcome' = r.outcome
  /\ solves' = solves + 1

\* leaderboard without a configuration: process.exit(1)
LeaderboardWithoutConfig ==
  /\ ~config.present
  /\ outcome' = Ran("leaderboard", 1, {SaidNoConfig}, <<>>)
  /\ UNCHANGED <<writeup, vcs, solves>>

TaskName == <<"A", " ", "b", "-", "c", "!">>
TASK     == BranchName(WEB, 1, slugify(TaskName))

\* the writeup as create left it, and as hands may have changed it since
Fresh      == RenderWriteup(WriteupContent(TaskName, WEB))
FlagByHand == RenderWriteup([WriteupContent(TaskName, WEB) EXCEPT !.flag = X])
Filled     == Template(TaskName, WEB, <<"1", "0", "0">>, <<X>>, <<ALICE>>)
Bare       == <<HEADING>> \o TaskName \o <<NL, NL, CATL>> \o WEB \o <<SP2, NL, NL, REST>>

FlagAnswers   == { <<X>>, <<X, DOLLAR, DOLLAR>> }
SolverAnswers == { <<ALICE>> }
PointsAnswers == { <<"1", "0", "0">>, <<SP, "5">> }

InitSolve ==
  /\ config \in {NoConfig, TestConfig}
  /\ writeup \in {[exists |-> FALSE, content |-> <<>>]}
                  \cup {[exists |-> TRUE, content |-> c] :
                          c \in {Fresh, FlagByHand, Filled, Bare}}
  /\ \E primary \in Primary, current \in {MAIN, MASTER, TASK, <<>>},
        dirty \in {{}, {"other"}} :
       /\ current \in {primary, TASK, <<>>}
       /\ vcs = [current |-> current, branches |-> {primary, TASK}, dirty |-> dirty,
                 commits |-> <<>>, remote |-> {primary, TASK}, merged |-> {}]
  /\ outcome = Ran(None, 0, {}, <<>>)
  /\ solves = 0
  /\ now = Epoch /\ folders = {} /\ files = <<>> /\ runs = 0 /\ last = NoRun
  /\ git = [isRepo |-> vcs.current # <<>>, branches |-> vcs.branches,
            current |-> vcs.current, commits |-> {}, pushed |-> {}]
  /\ IdleConfig /\ IdleMeta /\ IdleReadme /\ IdleLoc /\ IdleParse /\ IdleSolvers /\ IdleBoard

IdleSolveRest == UNCHANGED <<parseVars, solverVars, boardVars, locVars, cfgVars, metaVars, readmeVars>>

NextSolve ==
  \/ /\ \E lookup \in {"task", "none"}, solvedFlag \in BOOLEAN, flagValue \in FlagAnswers,
          solverName \in SolverAnswers, pointsValue \in PointsAnswers,
          finishTask \in BOOLEAN, fail \in SolveFailPoints :
          Solve(lookup, solvedFlag, flagValue, solverName, pointsValue, finishTask, fail)
     /\ UNCHANGED createVars /\ IdleSolveRest
  \/ LeaderboardWithoutConfig /\ UNCHANGED createVars /\ IdleSolveRest
  \/ CreateWithoutConfig /\ UNCHANGED solveVars /\ IdleSolveRest

SpecSolve == InitSolve /\ [][NextSolve]_vars

(***************************************************************************)
(* C12.  From the writeup create wrote, a solve run in which the user      *)
(* confirms the solve and enters a flag, a solver and points leaves the    *)
(* template with exactly these three values in its Points, Flag and Solver *)
(* fields, and the writeup then parses as completed with the flag, the     *)
(* points and the solver entered.                                          *)
(***************************************************************************)
SolveRan == solves' = solves + 1

\* solve reaches its prompts: configuration, task branch and writeup are there
AtPrompts ==
  /\ config.present
  /\ vcs.current # <<>> /\ ~isPrimaryBranch(vcs.current)
  /\ writeup.exists

C12_FillsFreshWriteup ==
  [][LET a == outcome'.answers
     IN  ( /\ SolveRan /\ AtPrompts
           /\ writeup.content = Fresh
           /\ a.solvedFlag = "yes" )
         => /\ writeup'.content = Template(TaskName, WEB, a.pointsValue, a.flagValue, a.solverName)
            /\ LET parsed == extractMetadata(writeup'.content, <<>>, FALSE)
               IN  /\ Truthy(parsed.isCompleted)
                   /\ parsed.flag = a.flagValue
                   /\ parsed.points = parseInt(LeadingDigits(trim(a.pointsValue)))
                   /\ parsed.solver = trim(a.solverName)]_vars

(***************************************************************************)
(* C13.  While main or master is checked out, a solve run exits with       *)
(* status 1, leaves the writeup as it is and makes no git call: no add,    *)
(* commit, push, merge or branch deletion.                                 *)
(***************************************************************************)
C13_RefusedOnPrimary ==
  [][SolveRan /\ vcs.current \in Primary
       => /\ outcome'.exit = 1
          /\ writeup' = writeup
          /\ vcs' = vcs
          /\ outcome'.calls = <<>>]_vars

\* solve was run on master, with a configuration, and refused for the branch
C13_Witness ==
  /\ config.present
  /\ vcs.current = MASTER
  /\ writeup.exists
  /\ outcome = Ran("solve", 1, {SaidOnPrimary}, <<>>)

(***************************************************************************)
(* C14.  When the writeup has no flag or the flag 'TBD' and the user       *)
(* answers that the flag is not solved, solve leaves the writeup as it is  *)
(* and makes no git call.                                                  *)
(***************************************************************************)
C14_UnsolvedUntouched ==
  [][( /\ SolveRan /\ AtPrompts
       /\ SolveIsFlagMissing(writeup.content)
       /\ outcome'.answers.solvedFlag = "no" )
     => /\ writeup' = writeup
        /\ vcs' = vcs
        /\ outcome'.calls = <<>>
        /\ outcome'.exit = 0]_vars

\* solve told the user that the task remains unsolved, the writeup still has no flag line
C14_Witness ==
  /\ outcome.command = "solve" /\ outcome.said = {SaidUnsolved}
  /\ outcome.answers.solvedFlag = "no"
  /\ writeup.exists /\ writeup.content = Bare
  /\ vcs.current = TASK

(***************************************************************************)
(* C15.  solve reports 'Task completed and branch cleaned up' only when    *)
(* the task branch was merged into the primary branch and deleted; when    *)
(* the merge step fails it gives the guidance and does not report that.    *)
(***************************************************************************)
C15_CompletedMeansMerged ==
  [][SolveRan /\ SaidCompleted \in outcome'.said
       => /\ vcs.current \in vcs'.merged
          /\ vcs.current \notin vcs'.branches
          /\ outcome'.said \cap {SaidResolve, SaidUncommitted} = {}]_vars

(***************************************************************************)
(* C16.  Without a configuration create, solve and leaderboard each tell   *)
(* the user to run setup and exit with status 1; no file, directory,       *)
(* branch or other part of the repository changes.                         *)
(***************************************************************************)
C16_NoConfigExits ==
  [][~config.present
       => /\ runs' # runs => last'.exit = 1 /\ SaidNoConfig \in last'.said
          /\ solves' # solves => outcome'.exit = 1 /\ SaidNoConfig \in outcome'.said
          /\ outcome' # outcome
               => /\ outcome'.command \in {"solve", "leaderboard"}
                  /\ outcome'.exit = 1 /\ SaidNoConfig \in outcome'.said
          /\ UNCHANGED <<folders, files, git, writeup, vcs, cfgVars, config>>]_vars

\* all three commands have run without a configuration, leaderboard last
C16_Witness ==
  /\ ~config.present
  /\ runs > 0 /\ last.exit = 1
  /\ solves > 0
  /\ outcome = Ran("leaderboard", 1, {SaidNoConfig}, <<>>)

(***************************************************************************)
(* updateReadme scanning the tree.  A writeup of the tree is its content,  *)
(* whether fs.readFile can read it, the commits git log reports for it     *)
(* (in log order) and whether the git calls throw.                         *)
(***************************************************************************)
Found(readable, content, fails) ==
  [readable |-> readable, content |-> content, log |-> <<>>, fails |-> fails]

RECURSIVE ScanFrom(_, _)
\* a scan that gives up at the first writeup it cannot process
MutScanFrom(ws, i) ==
  IF ws = <<>> \/ ~Head(ws).readable THEN <<>>
  ELSE <<[at |-> i, meta |-> extractMetadata(Head(ws).content, Head(ws).log, Head(ws).fails)]>>
         \o ScanFrom(Tail(ws), i + 1)

\* findCompetitionData: extractMetadata for each writeup, an error is logged and skipped
ScanFrom(ws, i) ==
  IF ws = <<>> THEN <<>>
  ELSE IF ~Head(ws).readable THEN ScanFrom(Tail(ws), i + 1)
  ELSE <<[at |-> i, meta |-> extractMetadata(Head(ws).content, Head(ws).log, Head(ws).fails)]>>
         \o ScanFrom(Tail(ws), i + 1)

MaxTree == 2
MaxLog  == 2

\* a task directory with its writeup.md appears in the tree
AddWriteup(readable, content, fails) ==
  /\ scanned.runs = 0
  /\ Len(tree) < MaxTree
  /\ tree' = Append(tree, Found(readable, content, fails))
  /\ UNCHANGED scanned

\* a commit that touches writeup i; git log lists the newest first
CommitWriteup(i, commit) ==
  /\ scanned.runs = 0
  /\ i \in DOMAIN tree
  /\ Len(tree[i].log) < MaxLog
  /\ tree' = [tree EXCEPT ![i].log = <<commit>> \o @]
  /\ UNCHANGED scanned

\* updateReadme: generateReadme calls findCompetitionData
UpdateReadme ==
  /\ scanned.runs = 0
  /\ scanned' = [runs |-> 1, challenges |-> ScanFrom(tree, 1)]
  /\ UNCHANGED tree

\* the lines of a writeup as a diff shows them
FlagLine(v)   == <<LBL, BT, v, BT, SP2>>
PointsLine(p) == <<PTSL>> \o p \o <<SP2>>
SolverLine(s) == <<SOLL, s>>

Changed(sign, line) == [sign |-> sign, line |-> line]

\* the flag alone replaced, by hand
FlagOnlyCommit(author) ==
  [author |-> author,
   patch  |-> <<Changed("-", FlagLine(TBD)), Changed("+", FlagLine(X))>>]

\* the commit solve makes: Points, Flag and Solver rewritten in one hunk
SolveCommit(author) ==
  [author |-> author,
   patch  |-> <<Changed("-", PointsLine(<<TBD>>)), Changed("-", FlagLine(TBD)),
                Changed("-", SolverLine(TBD)),
                Changed("+", PointsLine(<<"1", "0", "0">>)), Changed("+", FlagLine(X)),
                Changed("+", SolverLine(ALICE))>>]

\* the commit create makes: the whole template added
CreateCommit(author) ==
  [author |-> author,
   patch  |-> <<Changed("+", PointsLine(<<TBD>>)), Changed("+", FlagLine(TBD)),
                Changed("+", SolverLine(TBD))>>]

Commits == { FlagOnlyCommit(<<BOB>>), FlagOnlyCommit(<<SP>>), SolveCommit(<<BOB>>),
             CreateCommit(<<ALICE>>) }

NoHeading  == <<CATL>> \o WEB \o <<SP2, NL, PTSL, "5", SP2, NL, LBL, BT, X, BT, SP2, NL, NL, REST>>
WordPoints == Template(TaskName, WEB, <<X>>, <<X>>, <<ALICE>>)

Contents == { Fresh, Filled, Bare, NoHeading, WordPoints }

InitMeta ==
  /\ tree = <<>>
  /\ scanned = [runs |-> 0, challenges |-> <<>>]
  /\ IdleParse /\ IdleSolvers /\ IdleBoard /\ IdleLoc /\ IdleCreate
  /\ IdleConfig /\ IdleSolve /\ IdleReadme

IdleMetaRest == UNCHANGED <<parseVars, solverVars, boardVars, locVars, createVars, cfgVars, solveVars, readmeVars>>

NextMeta ==
  \/ /\ \E content \in Contents, fails \in BOOLEAN : AddWriteup(TRUE, content, fails)
     /\ IdleMetaRest
  \/ AddWriteup(FALSE, Fresh, FALSE) /\ IdleMetaRest
  \/ (\E i \in 1..MaxTree, commit \in Commits : CommitWriteup(i, commit)) /\ IdleMetaRest
  \/ UpdateReadme /\ IdleMetaRest

SpecMeta == InitMeta /\ [][NextMeta]_vars

(***************************************************************************)
(* C19.  extractMetadata does not fail on a writeup that lacks the         *)
(* heading, the Points, the Flag or the Solver field: it returns the       *)
(* sentinel of each missing field (points 0 also for TBD or points that    *)
(* are no number, empty flag, not completed), and a writeup that cannot be *)
(* processed is skipped while all the other writeups of the tree are       *)
(* scanned and reported.                                                   *)
(***************************************************************************)
Lacks(t, label) == ~includesText(t, <<label>>)

NumericPoints(t) == \E i \in 1..(Len(t) - 1) : t[i] = PTSL /\ t[i + 1] \in DigitChars

Reported == { scanned.challenges[k].at : k \in DOMAIN scanned.challenges }

FileSolver(t) ==
  LET solverMatch == LineMatch(t, SOLL)
  IN  IF solverMatch.ok THEN trim(solverMatch.cap) ELSE <<UNKNOWN>>

\* the patch takes a TBD flag line away and adds a flag line with another value
ChangesFlag(patch) ==
  /\ \E a \in DOMAIN patch : patch[a].sign = "-" /\ IsTbdFlagLine(patch[a].line)
  /\ \E b \in DOMAIN patch :
       /\ patch[b].sign = "+" /\ IsValueFlagLine(patch[b].line)
       /\ ~IsTbdFlagLine(patch[b].line)

\* the place in the log of the first commit whose patch satisfies the test, 0 if none
FirstCommit(log, Test(_)) ==
  LET hits == { k \in DOMAIN log : Test(log[k].patch) }
  IN  IF hits = {} THEN 0 ELSE CHOOSE k \in hits : \A h \in hits : k <= h

QUOT     == "\""
QuotEntity == <<"&", "q", "u", "o", "t", ";">>
NoFlag   == "No flag"
CodeOpen == "<code title=\""
CodeShut == "</code>"
Ellipsis == "..."

RECURSIVE EscapeQuotes(_)
\* .replace(/"/g, '&quot;')
EscapeQuotes(s) ==
  IF s = <<>> THEN <<>>
  ELSE IF Head(s) = QUOT THEN QuotEntity \o EscapeQuotes(Tail(s))
  ELSE <<Head(s)>> \o EscapeQuotes(Tail(s))

\* .slice(0, k)
slice(s, k) == IF Len(s) <= k THEN s ELSE SubSeq(s, 1, k)

FlagLimit == 30
FlagShown == 27

\* generateReadme: flagDisplay
FlagDisplay(f) ==
  IF f = <<>> \/ f = <<TBD>>
  THEN IF f = <<TBD>> THEN <<BT, TBD, BT>> ELSE <<NoFlag>>
  ELSE IF Len(f) > FlagLimit
       THEN <<CodeOpen>> \o EscapeQuotes(f) \o <<QUOT, ">">> \o slice(f, FlagShown)
              \o <<Ellipsis, CodeShut>>
  ELSE <<BT>> \o f \o <<BT>>

NameLimit == 25
NameShown == 22

\* generateReadme: challengeDisplay
ChallengeDisplay(name) ==
  IF Len(name) > NameLimit THEN slice(name, NameShown) \o <<Ellipsis>> ELSE name

\* the characters of names in the order of their UTF-16 code units; a name
\* the tree holds as one piece stands where its first characters put it
AsciiOrder == <<" ", "!", "-", ".", ".flagtrack", ".github",
                "0", "1", "2", "3", "4", "5", "6", "7", "8", "9",
                "A", "B", "C", "E", "R", "README.md", "W", "_",
                "a", "b", "c", "challenge_files", "d", "e", "exploit", "i", "m", "n",
                "notes.txt", "o", "p", "r", "s", "screenshots", "scripts", "t", "v",
                "w", "workflows", "workspace", "writeup.md", "x", "y">>

CharCode(c) ==
  IF \E i \in DOMAIN AsciiOrder : AsciiOrder[i] = c
  THEN CHOOSE i \in DOMAIN AsciiOrder : AsciiOrder[i] = c
  ELSE Len(AsciiOrder) + 1

RECURSIVE LexLess(_, _)
\* a < b for strings
LexLess(a, b) ==
  IF b = <<>> THEN FALSE
  ELSE IF a = <<>> THEN TRUE
  ELSE IF CharCode(Head(a)) # CharCode(Head(b)) THEN CharCode(Head(a)) < CharCode(Head(b))
  ELSE LexLess(Tail(a), Tail(b))

\* the one element of a singleton
Only(S) == CHOOSE x \in S : TRUE

\* Array.prototype.sort() of a set of distinct strings
Sorted(S) ==
  [i \in 1..Cardinality(S) |->
     CHOOSE n \in S : Cardinality({o \in S : LexLess(o, n)}) = i - 1]

ReadmeName == <<"README.md">>

\* fs.pathExists
pathExists(ds, fl, p) == p = <<>> \/ p \in ds \/ p \in DOMAIN fl

\* fs.readdir: the entries of a directory, always in the same order
readdir(ds, fl, p) ==
  Sorted({basename(q) : q \in {e \in ds \cup DOMAIN fl : e # <<>> /\ dirname(e) = p}})

\* /^\d{2}_/
categoryPattern(n) ==
  Len(n) >= 3 /\ n[1] \in DigitChars /\ n[2] \in DigitChars /\ n[3] = "_"

\* item.name.startsWith('.')
startsWithDot(n) == Head(n) = "." \/ n \in {DotFlagtrack, DotGithub}

\* the directories below the scan root that hold a category folder
CompetitionNames(ds, fl, root) ==
  { n \in {basename(q) : q \in {e \in ds : e # <<>> /\ dirname(e) = root}} :
      /\ ~startsWithDot(n)
      /\ \E sub \in ds : dirname(sub) = join(root, n) /\ categoryPattern(basename(sub)) }

\* categories[categoryNum] = ...: a later folder with the same number replaces the earlier
CategoryFoldersOf(ds, compPath, items) ==
  LET isCat(i) == join(compPath, items[i]) \in ds /\ categoryPattern(items[i])
      keys  == { SubSeq(items[i], 1, 2) : i \in {j \in DOMAIN items : isCat(j)} }
      lastOf(k) == CHOOSE i \in DOMAIN items :
                     /\ isCat(i) /\ SubSeq(items[i], 1, 2) = k
                     /\ \A j \in DOMAIN items :
                          isCat(j) /\ SubSeq(items[j], 1, 2) = k => j <= i
  IN  [k \in keys |-> items[lastOf(k)]]

\* the category folders of a competition by their number
CategoryFolders(ds, fl, compPath) ==
  Only({ CategoryFoldersOf(ds, compPath, items) : items \in {readdir(ds, fl, compPath)} })

\* path.relative(from, to) for a directory to below from
relativeBelow(from, to) == SubSeq(to, Len(from) + 1, Len(to))

\* no commit of the history replaces a TBD flag line
NoLog == <<>>

\* the challenges of a category folder, in the order readdir lists them
ChallengesFrom(ds, fl, ctfRoot, catPath, items) ==
  Only({ [i \in DOMAIN kept |->
            [num  |-> IF categoryPattern(kept[i])
                      THEN SubSeq(kept[i], 1, 2) ELSE <<"0", "0">>,
             path |-> relativeBelow(ctfRoot, join(catPath, kept[i])),
             meta |-> extractMetadata(
                        RenderWriteup(fl[join(join(catPath, kept[i]), WriteupName)]),
                        NoLog, FALSE)]] :
         kept \in {SelectSeq(items,
                             LAMBDA n : /\ join(catPath, n) \in ds
                                        /\ pathExists(ds, fl, join(join(catPath, n),
                                                                   WriteupName)))} })

\* a competition: its path and its categories with their challenges
Competition(ds, fl, ctfRoot, compPath) ==
  Only({ [path |-> compPath,
          categories |->
            [k \in DOMAIN cats |->
               [name |-> SubSeq(cats[k], 4, Len(cats[k])),
                path |-> join(compPath, cats[k]),
                challenges |->
                  ChallengesFrom(ds, fl, ctfRoot, join(compPath, cats[k]),
                                 readdir(ds, fl, join(compPath, cats[k])))]]] :
         cats \in {CategoryFolders(ds, fl, compPath)} })

\* updateReadme.findCompetitionData
findCompetitionData(ds, fl, ctfRoot, cfg) ==
  LET parent == IF cfg.present /\ cfg.parentDir # <<>> THEN cfg.parentDir ELSE <<>>
  IN  Only({ [n \in CompetitionNames(ds, fl, competitionsRoot) |->
                Competition(ds, fl, ctfRoot, join(competitionsRoot, n))] :
             competitionsRoot \in
               {IF parent # <<>> /\ pathExists(ds, fl, resolve(ctfRoot, parent))
                THEN resolve(ctfRoot, parent) ELSE ctfRoot} })

\* the challenges left in the order readdir listed them
MutSortByNum(cs) == cs

\* challenges.sort((a, b) => a.num.localeCompare(b.num)), a stable sort
sortByNum(cs) ==
  LET rank(i) == Cardinality({j \in DOMAIN cs : LexLess(cs[j].num, cs[i].num)})
                   + Cardinality({j \in 1..(i - 1) : cs[j].num = cs[i].num})
  IN  [r \in DOMAIN cs |-> cs[CHOOSE i \in DOMAIN cs : rank(i) = r - 1]]

\* challenges.filter(c => c.isCompleted).length
CountCompleted(cs) == Cardinality({i \in DOMAIN cs : Truthy(cs[i].meta.isCompleted)})

RECURSIVE SumCompleted(_)
\* challenges.reduce((sum, c) => sum + (c.isCompleted ? c.points : 0), 0)
SumCompleted(cs) ==
  IF cs = <<>> THEN 0
  ELSE (IF Truthy(Head(cs).meta.isCompleted) THEN Head(cs).meta.points ELSE 0)
         + SumCompleted(Tail(cs))

\* one line of a category table
Row(c) ==
  [num    |-> c.num,
   name   |-> ChallengeDisplay(c.meta.name),
   link   |-> c.path,
   points |-> IF c.meta.points # 0 THEN c.meta.points ELSE TBD,
   status |-> Truthy(c.meta.isCompleted),
   solver |-> IF c.meta.solver # <<>> THEN c.meta.solver ELSE <<UNKNOWN>>,
   flag   |-> FlagDisplay(c.meta.flag)]

\* the header of a category and its table
Table(k, category) ==
  Only({ [key |-> k, name |-> category.name,
          completed |-> CountCompleted(sorted),
          total |-> Len(sorted),
          points |-> SumCompleted(sorted),
          rows |-> [i \in DOMAIN sorted |-> Row(sorted[i])]] :
         sorted \in {sortByNum(category.challenges)} })

\* the tables in the order of Object.keys(categories).sort(); a category
\* without challenges is skipped
CategoryTables(categories) ==
  Only({ SelectSeq([i \in DOMAIN keys |-> Table(keys[i], categories[keys[i]])],
                   LAMBDA t : t.total # 0) :
         keys \in {Sorted(DOMAIN categories)} })

RECURSIVE Total(_, _)
\* a sum over the tables of a competition
Total(tables, field) ==
  IF tables = <<>> THEN 0 ELSE Head(tables)[field] + Total(Tail(tables), field)

\* Math.round((completed / challenges) * 100)
Percentage(completed, total) ==
  IF total = 0 THEN 0 ELSE (200 * completed + total) \div (2 * total)

\* the section of a competition: its statistics and its tables
Section(compName, categories) ==
  Only({ [name |-> compName,
          challenges |-> Total(tables, "total"),
          completed  |-> Total(tables, "completed"),
          progress   |-> Percentage(Total(tables, "completed"), Total(tables, "total")),
          points     |-> Total(tables, "points"),
          categories |-> tables] :
         tables \in {CategoryTables(categories)} })

\* the sections in the order of Object.keys(competitions).sort()
Sections(competitions) ==
  Only({ [i \in DOMAIN sortedCompetitions |->
            Section(sortedCompetitions[i],
                    competitions[sortedCompetitions[i]].categories)] :
         sortedCompetitions \in {Sorted(DOMAIN competitions)} })

\* updateReadme.generateReadme
generateReadme(ds, fl, ctfRoot, cfg, seconds) ==
  Only({ [stamp |-> seconds, sections |-> Sections(competitions)] :
         competitions \in {findCompetitionData(ds, fl, ctfRoot, cfg)} })

\* fs.appendFile in place of fs.writeFile
MutUpdateReadme(at, ds, fl, g, cfg, seconds) ==
  LET repoRoot == projectRoot(g, at)
  IN  IF repoRoot = <<>>
      THEN [files |-> fl, written |-> FALSE, exit |-> 1, content |-> [stamp |-> 0, sections |-> <<>>]]
      ELSE Only({ [files |-> writeFile(fl, join(repoRoot, ReadmeName), content),
                   written |-> TRUE, exit |-> 0, content |-> content] :
                  content \in
                    { IF join(repoRoot, ReadmeName) \in DOMAIN fl
                      THEN [stamp |-> seconds,
                            sections |-> fl[join(repoRoot, ReadmeName)].sections
                                           \o fresh.sections]
                      ELSE fresh :
                      fresh \in {generateReadme(ds, fl, repoRoot, cfg, seconds)} } })

\* commands/updateReadme
updateReadme(at, ds, fl, g, cfg, seconds) ==
  LET repoRoot == projectRoot(g, at)
  IN  IF repoRoot = <<>>
      THEN [files |-> fl, written |-> FALSE, exit |-> 1, content |-> [stamp |-> 0, sections |-> <<>>]]
      ELSE Only({ [files |-> writeFile(fl, join(repoRoot, ReadmeName), content),
                   written |-> TRUE, exit |-> 0, content |-> content] :
                  content \in {generateReadme(ds, fl, repoRoot, cfg, seconds)} })

MaxUpdates == 2

\* flagtrack update
Update ==
  /\ readme.runs < MaxUpdates
  /\ \E r \in {updateReadme(cwd, folders, files, git,
                            loadConfig(projectRoot(git, cwd), cfgFile, store), now)} :
       /\ files' = r.files
       /\ readme' = [runs |-> readme.runs + 1, written |-> r.written, exit |-> r.exit,
                     stamp |-> r.content.stamp, sections |-> r.content.sections]
  /\ UNCHANGED <<cwd, now, config, folders, git, last, runs, cfgFile, store, setups,
                 challengeFlag, cell>>

\* the task folders a repository may hold: competition, category folder, task folder
Other == <<"B">>
TaskDirs ==
  { <<Repo, Ctf, <<"0", "1", "_", "W", "e", "b">>, <<"0", "1", "_", "a">> >>,
    <<Repo, Ctf, <<"0", "1", "_", "W", "e", "b">>, <<"1", "0", "_", "b">> >>,
    <<Repo, Ctf, <<"0", "1", "_", "W", "e", "b">>, <<"c">> >>,
    <<Repo, Ctf, <<"0", "2", "_", "C", "r", "y", "p", "t", "o">>, <<"0", "2", "_", "a">> >>,
    <<Repo, Other, <<"0", "1", "_", "W", "e", "b">>, <<"0", "2", "_", "b">> >> }

\* a writeup as create wrote it, or with its fields filled in
Untouched(dir) ==
  WriteupContent(IF categoryPattern(basename(dir))
                 THEN SubSeq(basename(dir), 4, Len(basename(dir))) ELSE basename(dir), WEB)
Solved(dir)    == [Untouched(dir) EXCEPT !.points = "5", !.flag = X, !.solver = ALICE]

\* what .flagtrack/config.yml may name as the parent directory
ParentDirs == { <<>>, <<Dot>>, <<DotDot>>, <<Ctf>> }

ReadmeConfig(parent) ==
  [present |-> TRUE, eventName |-> Undefined, ctfName |-> Ctf, parentDir |-> parent,
   structure |-> <<>>]

InitReadme ==
  /\ now = Epoch
  /\ cwd = <<Repo>>
  /\ \E tasks \in SUBSET TaskDirs :
       /\ folders = {<<Repo>>, <<Repo, DotFlagtrack>>}
                      \cup UNION {mkdirp({}, t) \cup {join(t, sub) : sub \in folderTemplate} :
                                  t \in tasks}
       /\ \E solved \in SUBSET tasks :
            files = [p \in {join(t, WriteupName) : t \in tasks} |->
                       IF dirname(p) \in solved THEN Solved(dirname(p))
                       ELSE Untouched(dirname(p))]
  /\ \E isRepo \in BOOLEAN :
       git = [isRepo |-> isRepo, branches |-> IF isRepo THEN {MAIN} ELSE {},
              current |-> IF isRepo THEN MAIN ELSE <<>>, commits |-> {}, pushed |-> {}]
  /\ \/ cfgFile = [state |-> "missing", content |-> NoConfig] /\ store = NoConfig
     \/ \E parent \in ParentDirs :
          /\ cfgFile = [state |-> "ok", content |-> ReadmeConfig(parent)]
          /\ store = ReadmeConfig(parent)
  /\ config = loadConfig(projectRoot(git, cwd), cfgFile, store)
  /\ setups = 0
  /\ last = NoRun
  /\ runs = 0
  /\ readme = NoReadme /\ challengeFlag = <<>> /\ cell = <<>>
  /\ dirs = {} /\ parentDir = "" /\ located = NotLocated
  /\ IdleParse /\ IdleSolvers /\ IdleBoard /\ IdleSolve /\ IdleMeta

IdleReadmeRest == UNCHANGED <<parseVars, solverVars, boardVars, dirs, parentDir, located, solveVars, metaVars>>

NextReadme ==
  \/ Update /\ IdleReadmeRest
  \/ Tick /\ UNCHANGED <<cwd, cfgVars, readmeVars>> /\ IdleReadmeRest

SpecReadme == InitReadme /\ [][NextReadme]_vars

MaxPad  == 31
MaxTail == 2

\* k times the character a
Pad(k) == [i \in 1..k |-> "a"]

\* what a flag may hold between ordinary characters
Pieces == { <<>>, <<QUOT>>, <<"&">>, QuotEntity }

Flags ==
  {<<TBD>>} \cup { Pad(n) \o p \o Pad(m) : n \in 0..MaxPad, m \in 0..MaxTail, p \in Pieces }

\* one row of the table is rendered
RenderFlag ==
  /\ cell = <<>>
  /\ cell' = FlagDisplay(challengeFlag)
  /\ UNCHANGED <<challengeFlag, readme>>

InitCell ==
  /\ challengeFlag \in Flags
  /\ cell = <<>>
  /\ readme = NoReadme
  /\ IdleParse /\ IdleSolvers /\ IdleBoard /\ IdleLoc /\ IdleCreate
  /\ IdleConfig /\ IdleSolve /\ IdleMeta

NextCell ==
  RenderFlag /\ UNCHANGED <<parseVars, solverVars, boardVars, locVars, createVars, cfgVars, solveVars, metaVars>>

SpecCell == InitCell /\ [][NextCell]_vars

(***************************************************************************)
(* solve looking up the task of the current branch.                        *)
(***************************************************************************)
\* the index of the first "-" of s, 0 when there is none
FirstDash(s) ==
  IF \E i \in DOMAIN s : s[i] = "-"
  THEN CHOOSE i \in DOMAIN s : s[i] = "-" /\ \A j \in 1..(i - 1) : s[j] # "-"
  ELSE 0

\* branchName.match(/^([a-z]+)-(\d+)-(.+)$/)
branchPattern(branchName) ==
  LET i    == FirstDash(branchName)
      rest == SubSeq(branchName, i + 1, Len(branchName))
      j    == FirstDash(rest)
  IN  IF /\ i > 1 /\ \A k \in 1..(i - 1) : branchName[k] \in LowerLetters
         /\ j > 1 /\ \A k \in 1..(j - 1) : rest[k] \in DigitChars
         /\ Len(rest) > j
      THEN [ok |-> TRUE, category |-> SubSeq(branchName, 1, i - 1),
            taskNum |-> SubSeq(rest, 1, j - 1)]
      ELSE [ok |-> FALSE, category |-> <<>>, taskNum |-> <<>>]

UpperChar(c) ==
  CASE c = "a" -> "A"
    [] c = "c" -> "C"
    [] c = "w" -> "W"
    [] OTHER   -> c

\* str.charAt(0).toUpperCase() + str.slice(1)
capitalizeName(str) == IF str = <<>> THEN str ELSE <<UpperChar(Head(str))>> \o Tail(str)

\* configManager.validateLocation as solve reaches it: the directory it returns;
\* path.join throws on an undefined ctfName
locateCtfRoot(at, ds, fl, g, cfg) ==
  LET repoRoot == projectRoot(g, at)
      parent   == cfg.parentDir
  IN  IF repoRoot = <<>> THEN [threw |-> TRUE, path |-> <<>>]
      ELSE IF cfg.ctfName = Undefined THEN [threw |-> TRUE, path |-> <<>>]
      ELSE IF basename(at) = cfg.ctfName THEN [threw |-> FALSE, path |-> at]
      ELSE IF /\ Len(parent) = 1 /\ basename(at) = parent[1]
              /\ pathExists(ds, fl, join(at, cfg.ctfName))
           THEN [threw |-> FALSE, path |-> join(at, cfg.ctfName)]
      ELSE IF parent # <<>> /\ pathExists(ds, fl, resolve(repoRoot, parent))
           THEN [threw |-> FALSE, path |-> join(resolve(repoRoot, parent), cfg.ctfName)]
      ELSE [threw |-> FALSE, path |-> join(repoRoot, cfg.ctfName)]

NotFound == [threw |-> FALSE, found |-> FALSE, path |-> <<>>]
Threw    == [threw |-> TRUE, found |-> FALSE, path |-> <<>>]

\* solve.findTaskFromBranch; Object.entries of an undefined config.categories throws
findTaskFromBranch(branchName, cfg, at, ds, fl, g) ==
  LET match   == branchPattern(branchName)
      taskNum == padStart2(match.taskNum)
      ctfRoot == locateCtfRoot(at, ds, fl, g, cfg)
  IN  IF ~match.ok THEN NotFound
      ELSE IF ctfRoot.threw THEN Threw
      ELSE IF "categories" \notin DOMAIN cfg THEN Threw
      ELSE LET named == {i \in DOMAIN cfg.categories :
                           [k \in DOMAIN cfg.categories[i].value |->
                              LowerChar(cfg.categories[i].value[k])] = match.category}
           IN  IF named = {} THEN NotFound
               ELSE LET first == CHOOSE i \in named : \A j \in named : i <= j
                        categoryPath ==
                          join(ctfRoot.path,
                               padStart2(cfg.categories[first].key) \o <<"_">>
                                 \o capitalizeName(match.category))
                        taskFolders == readdir(ds, fl, categoryPath)
                        hits == {i \in DOMAIN taskFolders :
                                   /\ join(categoryPath, taskFolders[i]) \in ds
                                   /\ Len(taskFolders[i]) >= Len(taskNum) + 1
                                   /\ SubSeq(taskFolders[i], 1, Len(taskNum) + 1)
                                        = taskNum \o <<"_">>}
                    IN  IF ~pathExists(ds, fl, categoryPath) \/ hits = {} THEN NotFound
                        ELSE [threw |-> FALSE, found |-> TRUE,
                              path |-> join(categoryPath,
                                            taskFolders[CHOOSE i \in hits :
                                                          \A j \in hits : i <= j])]

IdleProjectRest == UNCHANGED <<parseVars, solverVars, boardVars, dirs, parentDir, located, writeup, vcs, solves, metaVars>>

IdleProject == IdleProjectRest /\ UNCHANGED readmeVars

NextProject ==
  \/ /\ \E add \in BOOLEAN, eventName \in EventNames, categories \in CategoryLists,
          actions \in BOOLEAN, fail \in {"none", "writeFile"} :
          Setup(add, Ctf, eventName, categories, actions, fail)
     /\ IdleProject
  \/ (\E d \in WorkDirs : Chdir(d)) /\ UNCHANGED outcome /\ IdleProject
  \/ Damage /\ UNCHANGED outcome /\ IdleProject
  \/ CreateWithoutConfig /\ UNCHANGED <<cwd, cfgVars, outcome>> /\ IdleProject
  \/ /\ runs < MaxProjectCreates
     /\ \E event \in EventKeys(config), category \in {WEB, CRYPTO},
          taskNum \in TaskNums, taskName \in TaskNames :
          Create(event, category, taskNum, taskName, {}, "none")
     /\ UNCHANGED <<cwd, cfgVars, outcome>> /\ IdleProject

SpecProject == InitProject /\ [][NextProject]_vars

\* the documented workflow: setup, create, then update
NextDashboard ==
  \/ /\ readme.runs = 0
     /\ \E add \in BOOLEAN, eventName \in EventNames, categories \in CategoryLists :
          Setup(add, Ctf, eventName, categories, FALSE, "none")
     /\ IdleProject
  \/ readme.runs = 0 /\ (\E d \in WorkDirs : Chdir(d)) /\ UNCHANGED outcome /\ IdleProject
  \/ /\ readme.runs = 0 /\ setups > 0 /\ runs < MaxProjectCreates
     /\ \E event \in EventKeys(config), category \in {WEB, CRYPTO},
          taskNum \in TaskNums, taskName \in TaskNames :
          Create(event, category, taskNum, taskName, {}, "none")
     /\ UNCHANGED <<cwd, cfgVars, outcome>> /\ IdleProject
  \/ Update /\ UNCHANGED outcome /\ IdleProjectRest

SpecDashboard == InitProject /\ [][NextDashboard]_vars

(***************************************************************************)
(* The flag cell of a README row.                                          *)
(***************************************************************************)
\* the value of the title attribute: the text up to the quote that closes it
TitleOf(c) ==
  LET shut == CHOOSE i \in 2..Len(c) : c[i] = QUOT /\ \A j \in 2..(i - 1) : c[j] # QUOT
  IN  SubSeq(c, 2, shut - 1)

\* what follows the opening tag
AfterTitle(c) == SubSeq(c, Len(TitleOf(c)) + 2, Len(c))

RECURSIVE Unescape(_)
\* the text an HTML parser reads from an attribute value
Unescape(s) ==
  IF s = <<>> THEN <<>>
  ELSE IF Len(s) >= Len(QuotEntity) /\ SubSeq(s, 1, Len(QuotEntity)) = QuotEntity
       THEN <<QUOT>> \o Unescape(SubSeq(s, Len(QuotEntity) + 1, Len(s)))
  ELSE <<Head(s)>> \o Unescape(Tail(s))

\* C22: the flag cell is the TBD tag for the flag 'TBD', 'No flag' for an
\* empty flag, the flag verbatim when it has at most 30 characters, and for a
\* longer flag its first 27 characters and an ellipsis inside an element
\* whose title attribute, read as HTML, is the full flag.
C22_FlagCell ==
  cell # <<>> =>
    IF challengeFlag = <<TBD>> THEN cell = <<BT, TBD, BT>>
    ELSE IF challengeFlag = <<>> THEN cell = <<NoFlag>>
    ELSE IF Len(challengeFlag) <= 30 THEN cell = <<BT>> \o challengeFlag \o <<BT>>
    ELSE /\ Head(cell) = CodeOpen
         /\ AfterTitle(cell) = <<QUOT, ">">> \o SubSeq(challengeFlag, 1, 27)
                                 \o <<Ellipsis, CodeShut>>
         /\ Unescape(TitleOf(cell)) = challengeFlag

(***************************************************************************)
(* README.md against the tree it was generated from.                       *)
(***************************************************************************)
WriteupPaths == {p \in DOMAIN files : basename(p) = WriteupName}

\* <root>/<competition>/<NN_category>/<NN_task>/writeup.md
LaidOut ==
  \A p \in WriteupPaths :
    /\ Len(p) = 5 /\ p[1] = Repo
    /\ categoryPattern(p[3]) /\ categoryPattern(p[4])

\* the places of README.md where a table under the competition and the
\* category of the task folder has a row that links to it
RowsOf(content, taskFolder) ==
  { pos \in {<<i, j, k>> : i \in DOMAIN content, j \in 1..4, k \in 1..4} :
      /\ pos[2] \in DOMAIN content[pos[1]].categories
      /\ pos[3] \in DOMAIN content[pos[1]].categories[pos[2]].rows
      /\ content[pos[1]].name = taskFolder[2]
      /\ content[pos[1]].categories[pos[2]].name
           = SubSeq(taskFolder[3], 4, Len(taskFolder[3]))
      /\ content[pos[1]].categories[pos[2]].rows[pos[3]].link
           = SubSeq(taskFolder, 2, Len(taskFolder)) }

\* the writeups below a category folder
InCategory(comp, catName) ==
  {p \in WriteupPaths : p[2] = comp /\ SubSeq(p[3], 4, Len(p[3])) = catName}

\* C21: for a tree laid out as root/competition/NN_category/NN_task/writeup.md
\* the README has exactly one row per writeup, under its competition and
\* category, and each category header counts the writeups and the completed
\* ones, whatever parent directory the configuration names.
C21_RowPerWriteup ==
  readme.written /\ LaidOut =>
    /\ \A p \in WriteupPaths : Cardinality(RowsOf(readme.sections, dirname(p))) = 1
    /\ \A i \in DOMAIN readme.sections :
         \A j \in DOMAIN readme.sections[i].categories :
           LET table == readme.sections[i].categories[j]
               found == InCategory(readme.sections[i].name, table.name)
           IN  /\ table.total = Cardinality(found)
               /\ table.total = Len(table.rows)
               /\ table.completed = Cardinality({p \in found : files[p].flag # TBD})

\* C23: competitions come in the order of their names, the categories of a
\* competition in the order of their two-digit keys, the rows of a category in
\* the string order of their index.
C23_Ordered ==
  readme.written =>
    /\ \A i \in 1..(Len(readme.sections) - 1) :
         LexLess(readme.sections[i].name, readme.sections[i + 1].name)
    /\ \A i \in DOMAIN readme.sections :
         LET tables == readme.sections[i].categories
         IN  /\ \A j \in 1..(Len(tables) - 1) :
                  /\ Len(tables[j].key) = 2
                  /\ LexLess(tables[j].key, tables[j + 1].key)
             /\ \A j \in DOMAIN tables :
                  \A k \in 1..(Len(tables[j].rows) - 1) :
                    ~LexLess(tables[j].rows[k + 1].num, tables[j].rows[k].num)

C23_Witness ==
  /\ readme.written
  /\ Len(readme.sections) = 2
  /\ \E i \in DOMAIN readme.sections :
       /\ Len(readme.sections[i].categories) = 2
       /\ \E j \in DOMAIN readme.sections[i].categories :
            LET rows == readme.sections[i].categories[j].rows
            IN  /\ Len(rows) = 3
                /\ rows[1].num = <<"0", "0">> /\ rows[3].num = <<"1", "0">>

UpdateRan == readme'.runs = readme.runs + 1

\* C24: a run of update leaves the directories, the configuration and every
\* file but README.md as they were, and a run that follows another on the
\* unchanged tree writes the same sections; only the time stamp may differ.
C24_SameReadmeTwice ==
  [][UpdateRan =>
       /\ folders' = folders /\ cfgFile' = cfgFile /\ store' = store /\ git' = git
       /\ DOMAIN files' \ {<<Repo, ReadmeName>>} = DOMAIN files \ {<<Repo, ReadmeName>>}
       /\ \A p \in DOMAIN files \ {<<Repo, ReadmeName>>} : files'[p] = files[p]
       /\ readme.written =>
            /\ readme'.written
            /\ readme'.sections = readme.sections
            /\ files'[<<Repo, ReadmeName>>].sections = files[<<Repo, ReadmeName>>].sections]_vars

C24_Witness ==
  /\ readme.runs = 2 /\ readme.written
  /\ readme.stamp = Epoch + 1
  /\ \E i \in DOMAIN readme.sections : readme.sections[i].completed > 0

\* the rows of README.md that link to a task folder and show it as not completed
OpenRowsFor(content, taskFolder) ==
  { pos \in {<<i, j, k>> : i \in DOMAIN content, j \in 1..4, k \in 1..4} :
      /\ pos[2] \in DOMAIN content[pos[1]].categories
      /\ pos[3] \in DOMAIN content[pos[1]].categories[pos[2]].rows
      /\ content[pos[1]].categories[pos[2]].rows[pos[3]].link
           = SubSeq(taskFolder, 2, Len(taskFolder))
      /\ ~content[pos[1]].categories[pos[2]].rows[pos[3]].status }

\* C25: once setup has made a project and create has scaffolded a task in it,
\* a run of update that writes README.md puts exactly one row for the task in
\* it, marked as not completed.
C25_RowForCreatedTask ==
  [][UpdateRan /\ readme'.written /\ setups > 0 /\ cfgFile.state = "ok"
       /\ last.done /\ last.exit = 0 /\ Scaffolded(folders, files, last.folder)
       => Cardinality(OpenRowsFor(readme'.sections, last.folder)) = 1]_vars

(***************************************************************************)
(* C30.  In every result of processLeaderboardData each solver's solved    *)
(* count is at most totals.solved and each solver's points are at most     *)
(* totals.points: no solver has more than the whole of the solves or of    *)
(* the points.                                                             *)
(***************************************************************************)
C30_NoShareAboveWhole ==
  board.done =>
    \A i \in DOMAIN board.solvers :
      /\ board.solvers[i].solved <= board.totals.solved
      /\ board.solvers[i].points <= board.totals.points

(***************************************************************************)
(* C27.  mergeAndDeleteBranch deletes the task branch, locally or on the   *)
(* remote, only after the merge into the primary branch and the push of    *)
(* the primary branch have both succeeded; when the status check, fetch,   *)
(* checkout, pull, merge or push fails the task branch still exists.       *)
(***************************************************************************)
\* the git calls of the run hold a merge with the push of the primary branch right after it
MergedAndPushed(calls) ==
  \E i \in 1..(Len(calls) - 1) : calls[i] = "merge" /\ calls[i + 1] = "push"

DeletedLocally(b)  == b \in vcs.branches /\ b \notin vcs'.branches
DeletedOnRemote(b) == b \in vcs.remote /\ b \notin vcs'.remote

C27_DeleteAfterMergeAndPush ==
  [][SolveRan
       => /\ DeletedLocally(vcs.current) \/ DeletedOnRemote(vcs.current)
               => /\ MergedAndPushed(outcome'.calls)
                  /\ vcs.current \in vcs'.merged
                  /\ \A i \in DOMAIN outcome'.calls :
                       outcome'.calls[i] = "deleteLocalBranch"
                         => MergedAndPushed(SubSeq(outcome'.calls, 1, i - 1))
          /\ ~MergedAndPushed(outcome'.calls)
               => /\ vcs'.branches = vcs.branches
                  /\ vcs.current \in vcs.remote => vcs.current \in vcs'.remote]_vars

\* solve has merged the task branch, pushed the primary branch and deleted the task branch
C27_Witness ==
  /\ outcome.command = "solve" /\ outcome.exit = 0
  /\ MergedAndPushed(outcome.calls)
  /\ TASK \in vcs.merged
  /\ TASK \notin vcs.branches /\ TASK \notin vcs.remote
  /\ vcs.current \in Primary

\* C28: when create commits, the commit is on a task branch that this same
\* invocation created and checked out from a primary branch; a run whose
\* branch creation or checkout failed or was skipped commits nothing.
C28_CommitsOnNewTaskBranch ==
  [][CreateRan =>
       /\ \A c \in git'.commits \ git.commits :
            /\ last'.branchCreated
            /\ git.current \in Primary
            /\ c.branch = git'.current
            /\ c.branch \notin Primary
            /\ c.branch \notin git.branches
            /\ c.branch \in git'.branches
       /\ ~last'.branchCreated => git'.commits = git.commits]_vars

C28_Witness ==
  /\ last.done
  /\ last.branchCreated
  /\ last.from \in Primary
  /\ git.current \notin Primary
  /\ \E c \in git.commits : c.branch = git.current /\ c.added = last.folder

\* C29: a setup run that starts a new project inside a repository prints
\* "Configuration saved" only if .flagtrack/config.yml now holds the new
\* configuration.
C29_SavedMeansWritten ==
  [][SetupRan /\ SaidSaved \in outcome'.said /\ projectRoot(git, cwd) # <<>>
       => cfgFile'.state = "ok" /\ cfgFile'.content = store']_vars

\* C26: when create has scaffolded a task on a new branch named
\* category-NN-task, the lookup solve makes from that branch name yields the
\* folder of that task, so that solve does not ask for the task.
C26_BranchResolvesToTask ==
  [][/\ CreateSucceeded /\ setups > 0 /\ cfgFile.state = "ok"
     /\ last'.branchCreated
     /\ git'.current = BranchName(last'.category, last'.taskNum, slugify(last'.taskName))
     => LET found == findTaskFromBranch(git'.current, config', cwd', folders', files', git')
        IN  /\ ~found.threw
            /\ found.found
            /\ found.path = last'.folder]_vars

=============================================================================
